---- MODULE Spec2Model ----
(***************************************************************************)
(* Model of the kurtosis-lint analysis engine: the two-pass orchestration  *)
(* of analyze_files, the per-file analysis analyze_file, the import        *)
(* visitor, the function/call visitor and the alias-chain resolution.      *)
(*                                                                         *)
(* Representation.                                                         *)
(*  - A path string is a record [segs, star]: segs are the components of   *)
(*    the string split at "/", star tells whether the string ends with     *)
(*    ".star".  "/ws/a.star" is [segs |-> <<"", "ws", "a">>, star |-> TRUE]*)
(*    and "./b" is [segs |-> <<".", "b">>, star |-> FALSE].                *)
(*  - A Python dict is a sequence of [k, v] records in insertion order.    *)
(*  - A source file is a sequence of top-level statements, one per line;   *)
(*    a function definition is written on one line                         *)
(*    [def f(a): "doc"; stmt; stmt], so every violation raised inside it   *)
(*    carries the line of the def.                                         *)
(***************************************************************************)
EXTENDS Integers, Sequences, FiniteSets, TLC

\* F(v), with v computed once
With(v, F(_)) == F(v)

(***************************************************************************)
(* Ordered dictionaries                                                    *)
(***************************************************************************)
DHas(d, k) == \E i \in 1..Len(d) : d[i].k = k

DIndex(d, k) == CHOOSE i \in 1..Len(d) : d[i].k = k

DGet(d, k) == d[DIndex(d, k)].v

DSet(d, k, v) ==
    IF DHas(d, k)
    THEN [d EXCEPT ![DIndex(d, k)] = [k |-> k, v |-> v]]
    ELSE Append(d, [k |-> k, v |-> v])

DKeys(d) == {d[i].k : i \in 1..Len(d)}

(***************************************************************************)
(* Path strings                                                            *)
(***************************************************************************)
Front(s) == SubSeq(s, 1, Len(s) - 1)

\* str.startswith and str.endswith
StartsWith(s, prefix) ==
    Len(s) >= Len(prefix) /\ SubSeq(s, 1, Len(prefix)) = prefix

EndsWith(s, suffix) ==
    Len(s) >= Len(suffix)
    /\ SubSeq(s, Len(s) - Len(suffix) + 1, Len(s)) = suffix

\* None
NoPath == [segs |-> <<>>, star |-> FALSE]

\* the record of the string with the components segs, followed by ".star"
\* when star is set: star tells that the string ends in ".star", and the last
\* component is then kept without the suffix
Path(segs, star) ==
    IF ~star /\ segs # <<>> /\ EndsWith(segs[Len(segs)], ".star")
    THEN [segs |-> Front(segs)
                   \o <<SubSeq(segs[Len(segs)], 1, Len(segs[Len(segs)]) - 5)>>,
          star |-> TRUE]
    ELSE [segs |-> segs, star |-> star]

IsAbs(p) == Len(p.segs) > 1 /\ p.segs[1] = ""

IsRel(p) == Len(p.segs) > 1 /\ p.segs[1] \in {".", ".."}

IsExternalPath(p) == Len(p.segs) > 1 /\ p.segs[1] = "github.com"

EndsWithStar(p) == p.star

AddStar(p) == [p EXCEPT !.star = TRUE]

\* str.split('/') of the string a path stands for
Components(p) ==
    IF p.star /\ p.segs # <<>>
    THEN Front(p.segs) \o <<p.segs[Len(p.segs)] \o ".star">>
    ELSE p.segs

\* the components without the empty ones at the end
RECURSIVE RStripEmpty(_)
RStripEmpty(segs) ==
    IF segs # <<>> /\ segs[Len(segs)] = "" THEN RStripEmpty(Front(segs))
    ELSE segs

\* os.path.dirname: everything up to the last slash, the slashes at its end
\* removed unless it consists of slashes
Dirname(p) ==
    With(RStripEmpty(Front(p.segs)),
         LAMBDA stripped :
             IF Front(p.segs) = <<>> THEN Path(<<"">>, FALSE)
             ELSE IF stripped = <<>> THEN Path(Front(p.segs) \o <<"">>, FALSE)
             ELSE Path(stripped, FALSE))

\* os.path.basename
Basename(p) == Path(<<p.segs[Len(p.segs)]>>, p.star)

\* os.path.join(d, p)
Join(d, p) ==
    IF IsAbs(p) THEN p
    ELSE With(Components(d),
              LAMBDA comps :
                  IF comps # <<>> /\ comps[Len(comps)] = ""
                  THEN Path(Front(comps) \o p.segs, p.star)
                  ELSE Path(comps \o p.segs, p.star))

\* os.path.normpath: the number of slashes the result starts with
InitialSlashes(segs) ==
    IF Len(segs) < 2 \/ segs[1] # "" THEN 0
    ELSE IF Len(segs) >= 3 /\ segs[2] = "" /\ ~(Len(segs) >= 4 /\ segs[3] = "")
    THEN 2
    ELSE 1

\* os.path.normpath: one round of the loop over the components, on the
\* component s; plain tells that s carries the suffix ".star", so it is
\* neither empty nor "." nor ".."
NormStep(acc, s, slashes, plain) ==
    IF ~plain /\ s \in {"", "."} THEN acc
    ELSE IF plain \/ s # ".."
            \/ (slashes = 0 /\ acc = <<>>)
            \/ (acc # <<>> /\ acc[Len(acc)] = "..")
    THEN Append(acc, s)
    ELSE IF acc # <<>> THEN Front(acc)
    ELSE acc

\* os.path.normpath: the loop over the components; last tells that the
\* final component carries the suffix ".star"
RECURSIVE NormSegs(_, _, _, _)
NormSegs(acc, rest, slashes, last) ==
    IF rest = <<>> THEN acc
    ELSE NormSegs(NormStep(acc, Head(rest), slashes, last /\ Len(rest) = 1),
                  Tail(rest), slashes, last)

\* os.path.normpath(p)
Normpath(p) ==
    With(NormSegs(<<>>, p.segs, InitialSlashes(p.segs), p.star),
         LAMBDA comps :
             IF comps # <<>>
             THEN Path([i \in 1..InitialSlashes(p.segs) |-> ""] \o comps, p.star)
             ELSE IF InitialSlashes(p.segs) = 0 THEN Path(<<".">>, FALSE)
             ELSE Path([i \in 1..InitialSlashes(p.segs) |-> ""] \o <<"">>,
                       FALSE))

RECURSIVE CommonLen(_, _)
CommonLen(a, b) ==
    IF a = <<>> \/ b = <<>> \/ Head(a) # Head(b) THEN 0
    ELSE 1 + CommonLen(Tail(a), Tail(b))

Ups(n) == [i \in 1..n |-> ".."]

\* the string a path record stands for
RECURSIVE JoinSegs(_)
JoinSegs(segs) ==
    IF segs = <<>> THEN ""
    ELSE IF Len(segs) = 1 THEN segs[1]
    ELSE segs[1] \o "/" \o JoinSegs(Tail(segs))

PathStr(p) == JoinSegs(p.segs) \o (IF p.star THEN ".star" ELSE "")

\* str.split('/') from position i on: acc the components read so far, cur
\* the one being read
RECURSIVE SplitStr(_, _, _, _)
SplitStr(s, i, acc, cur) ==
    IF i > Len(s) THEN Append(acc, cur)
    ELSE SplitStr(s, i + 1,
                  IF SubSeq(s, i, i) = "/" THEN Append(acc, cur) ELSE acc,
                  IF SubSeq(s, i, i) = "/" THEN "" ELSE cur \o SubSeq(s, i, i))

\* the path record of a string
ParsePath(s) ==
    IF EndsWith(s, ".star")
    THEN Path(SplitStr(SubSeq(s, 1, Len(s) - 5), 1, <<>>, ""), TRUE)
    ELSE Path(SplitStr(s, 1, <<>>, ""), FALSE)

RECURSIVE NonEmpty(_)
NonEmpty(segs) ==
    IF segs = <<>> THEN <<>>
    ELSE (IF Head(segs) = "" THEN <<>> ELSE <<Head(segs)>>)
         \o NonEmpty(Tail(segs))

\* os.path.abspath(p) in the working directory cwd
Abspath(p, cwd) == Normpath(Join(cwd, p))

\* os.path.relpath(t, d) of a non-empty t in the working directory cwd
Relpath(t, d, cwd) ==
    With(<<NonEmpty(Components(Abspath(d, cwd))),
           NonEmpty(Components(Abspath(t, cwd)))>>,
         LAMBDA l :
             With(Ups(Len(l[1]) - CommonLen(l[1], l[2]))
                      \o SubSeq(l[2], CommonLen(l[1], l[2]) + 1, Len(l[2])),
                  LAMBDA rel :
                      IF rel = <<>> THEN Path(<<".">>, FALSE)
                      ELSE ParsePath(JoinSegs(rel))))

\* str.lstrip('/')
RECURSIVE LStripSlash(_)
LStripSlash(s) ==
    IF StartsWith(s, "/") THEN LStripSlash(SubSeq(s, 2, Len(s))) ELSE s

\* workspace_root and file_path.startswith(workspace_root)
IsUnder(p, root) ==
    /\ root # NoPath
    /\ PathStr(root) # ""
    /\ StartsWith(PathStr(p), PathStr(root))

\* file_path[len(workspace_root):].lstrip('/')
StripRoot(p, root) ==
    ParsePath(LStripSlash(SubSeq(PathStr(p), Len(PathStr(root)) + 1,
                                 Len(PathStr(p)))))

WithPrefix(s, p) == Path(<<s>> \o p.segs, p.star)

(***************************************************************************)
(* Source files: statements of the dialect                                 *)
(***************************************************************************)
\* var = import_module("path")
Import(var, path) == [k |-> "import", var |-> var, path |-> path]

\* var = src
Alias(var, src) == [k |-> "alias", var |-> var, src |-> src]

\* def name(sig): "doc"; body
Def(name, doc, sig, body) ==
    [k |-> "def", name |-> name, doc |-> doc, sig |-> sig, body |-> body]

\* obj.fn(<npos constants>, kw = constant for kw in kws)
QCall(obj, fn, npos, kws) ==
    [k |-> "qcall", obj |-> obj, fn |-> fn, npos |-> npos, kws |-> kws,
     nested |-> <<>>]

\* fn(<npos constants>, kw = constant for kw in kws)
BCall(fn, npos, kws) ==
    [k |-> "bcall", fn |-> fn, npos |-> npos, kws |-> kws, nested |-> <<>>]

\* the argument of a call that holds the call c: positional argument pos,
\* or the value of keyword pos - npos; via tells where c stands in it:
\*   "direct"     the argument is c
\*   "comp_elt"   the argument is [c for it in q]
\*   "comp_iter"  the argument is [it for it in c]
\*   "ref"        c is a Ref and the argument is its right-hand side
Nested(pos, via, c) == [pos |-> pos, via |-> via, call |-> c]

\* the call with the arguments of nested, given in increasing pos, replaced
WithArgs(call, nested) == [call EXCEPT !.nested = nested]

\* the target of the comprehensions
CompVar == "it"

\* _r = obj.fn | _r = [obj.fn] | _r = (obj.fn,) | _r = {"k": obj.fn}
Ref(form, obj, fn) == [k |-> "ref", form |-> form, obj |-> obj, fn |-> fn]

\* var = import_module() | var = import_module(1): arg is "missing" or
\* "nonstring"
BadImport(var, arg) == [k |-> "badimport", var |-> var, arg |-> arg]

\* t1, t2, ... = v1, v2, ...: targets are names, values are built with
\* ImportValue, BadImportValue, NameValue and ConstValue
TupleAssign(targets, values) ==
    [k |-> "tuple", targets |-> targets, values |-> values]

ImportValue(path) == [e |-> "import", path |-> path]

BadImportValue(arg) == [e |-> "badimport", arg |-> arg]

NameValue(src) == [e |-> "name", src |-> src]

ConstValue == [e |-> "const"]

\* print([a for a, b in ys]): the target of the comprehension is a tuple
BadCompExpr == [k |-> "badcomp"]

\* var = [a for a, b in ys]
BadCompAssign(var) == [k |-> "assignbad", var |-> var]

\* node.args.vararg / node.args.kwarg of a def without * / ** parameter
NoParam == "None"

\* parameter shape of a def: positional names, number of trailing defaults,
\* name of the * parameter or NoParam, keyword-only names, name of the **
\* parameter or NoParam; kwdef is the set of keyword-only names declared with
\* a constant default other than None
Sig(args, ndef, vararg, kwonly, kwarg) ==
    [args |-> args, ndef |-> ndef, vararg |-> vararg, kwonly |-> kwonly,
     kwarg |-> kwarg, kwdef |-> {}]

\* the same def with the keyword-only parameters in names given a default
WithKwDefaults(sig, names) == [sig EXCEPT !.kwdef = names]

\* name.startswith('_') and name.startswith('test_')
StartsWithUnderscore(n) == StartsWith(n, "_")

StartsWithTest(n) == StartsWith(n, "test_")

(***************************************************************************)
(* UnifiedImportVisitor                                                    *)
(***************************************************************************)
\* _resolve_module_path: (resolved_path, is_external, is_absolute, is_relative)
\* _resolve_module_path treating an external path as a simple one
ResolveExternalAsSimple(file, root, mp) ==
    [resolved |-> Join(root, mp), ext |-> IsExternalPath(mp),
     abs |-> IsAbs(mp), rel |-> IsRel(mp)]

ResolveModulePath(file, root, mp) ==
    IF IsExternalPath(mp)
    THEN [resolved |-> NoPath, ext |-> TRUE, abs |-> FALSE, rel |-> FALSE]
    ELSE IF IsAbs(mp)
    THEN [resolved |-> IF root # NoPath /\ PathStr(root) # ""
                       THEN Join(root, Path(Tail(mp.segs), mp.star))
                       ELSE NoPath,
          ext |-> FALSE, abs |-> TRUE, rel |-> IsRel(mp)]
    ELSE IF IsRel(mp)
    THEN [resolved |-> Normpath(Join(Dirname(file), mp)),
          ext |-> FALSE, abs |-> FALSE, rel |-> TRUE]
    ELSE IF root = NoPath
    THEN [resolved |-> NoPath, ext |-> FALSE, abs |-> FALSE, rel |-> FALSE]
    ELSE [resolved |-> Join(root, mp),
          ext |-> FALSE, abs |-> FALSE, rel |-> FALSE]

\* _is_import_module_var without the test of the visited set
ImvStepUnguarded(vars, aliases, var, visited) ==
    IF var \in vars
    THEN [done |-> TRUE, result |-> TRUE, var |-> var,
          visited |-> visited \cup {var}]
    ELSE IF DHas(aliases, var)
    THEN [done |-> FALSE, result |-> FALSE, var |-> DGet(aliases, var),
          visited |-> visited \cup {var}]
    ELSE [done |-> TRUE, result |-> FALSE, var |-> var,
          visited |-> visited \cup {var}]

\* one activation of _is_import_module_var: either it returns (done) or it
\* recurses on the alias source with the enlarged visited set
ImvStep(vars, aliases, var, visited) ==
    IF var \in visited
    THEN [done |-> TRUE, result |-> FALSE, var |-> var, visited |-> visited]
    ELSE IF var \in vars
    THEN [done |-> TRUE, result |-> TRUE, var |-> var,
          visited |-> visited \cup {var}]
    ELSE IF DHas(aliases, var)
    THEN [done |-> FALSE, result |-> FALSE, var |-> DGet(aliases, var),
          visited |-> visited \cup {var}]
    ELSE [done |-> TRUE, result |-> FALSE, var |-> var,
          visited |-> visited \cup {var}]

RECURSIVE IsImportModuleVarFrom(_, _, _, _)
IsImportModuleVarFrom(vars, aliases, var, visited) ==
    LET r == ImvStep(vars, aliases, var, visited)
    IN  IF r.done THEN r.result
        ELSE IsImportModuleVarFrom(vars, aliases, r.var, r.visited)

IsImportModuleVar(vars, aliases, var) ==
    IsImportModuleVarFrom(vars, aliases, var, {})

\* _check_naming_convention: the violations it appends
CheckNamingConvention(level, line, var, isAlias) ==
    IF level > 0 \/ StartsWithUnderscore(var) THEN <<>>
    ELSE <<[line |-> line,
            msg |-> [kind |-> IF isAlias THEN "import_alias_naming"
                                         ELSE "import_naming",
                     var |-> var]]>>

\* the visitor after __init__: level is scope_level, raised tells that an
\* exception is on its way out of the visit methods
ImportVisitorInit ==
    [calls |-> <<>>, vars |-> {}, aliases |-> <<>>, violations |-> <<>>,
     level |-> 0, raised |-> FALSE]

\* _enter_scope and _exit_scope: scope_level
IvEnterScope(iv) == [iv EXCEPT !.level = @ + 1]

IvExitScope(iv) == [iv EXCEPT !.level = @ - 1]

\* _process_assignment: an element bound to an import_module call, with or
\* without a usable argument, becomes an import variable and is checked
\* against the naming convention
ProcessAssignment(iv, line, target, isImportModule) ==
    IF isImportModule
    THEN [iv EXCEPT !.vars = @ \cup {target},
                    !.violations = @ \o
                        CheckNamingConvention(iv.level, line, target, FALSE)]
    ELSE iv

\* the ImportedModule record of a binding
ImportedModule(path, r, line) ==
    [module_path |-> path, is_external |-> r.ext, is_absolute |-> r.abs,
     is_relative |-> r.rel, resolved_path |-> r.resolved, lineno |-> line]

\* _handle_tuple_element_assignment after _process_assignment: the binding
\* of an import with a non-empty path, or the alias of a name
TupleElementBinding(iv, file, root, line, target, value) ==
    IF value.e = "import" /\ PathStr(value.path) = ""
    THEN iv
    ELSE IF value.e = "import"
    THEN [iv EXCEPT !.calls = DSet(@, target,
                         ImportedModule(value.path,
                                        ResolveModulePath(file, root, value.path),
                                        line))]
    ELSE IF value.e = "name"
    THEN [iv EXCEPT !.aliases = DSet(@, target, value.src),
                    !.violations = @ \o
                        (IF IsImportModuleVar(iv.vars,
                                              DSet(iv.aliases, target, value.src),
                                              value.src)
                            /\ iv.level = 0
                         THEN CheckNamingConvention(iv.level, line, target, TRUE)
                         ELSE <<>>)]
    ELSE iv

\* _handle_tuple_element_assignment
HandleTupleElementAssignment(iv, file, root, line, target, value) ==
    TupleElementBinding(
        ProcessAssignment(iv, line, target,
                          value.e \in {"import", "badimport"}),
        file, root, line, target, value)

\* visit_Assign on a tuple target with a tuple value: the elements in order,
\* those without a value skipped
RECURSIVE ImportVisitTuple(_, _, _, _, _, _)
ImportVisitTuple(iv, file, root, stmt, line, i) ==
    IF i > Len(stmt.targets) THEN iv
    ELSE ImportVisitTuple(
             IF i > Len(stmt.values) THEN iv
             ELSE HandleTupleElementAssignment(iv, file, root, line,
                                               stmt.targets[i], stmt.values[i]),
             file, root, stmt, line, i + 1)

\* visit of one simple statement at the scope level the visitor is at:
\* visit_Assign / _handle_name_assignment on an assignment.  On the
\* comprehension [a for a, b in ys] BaseVisitor.visit_ListComp enters a
\* scope and generator.target.id then raises AttributeError: the except
\* clause of visit_Assign ends the exception with the scope still entered,
\* and nothing catches what the visit of an expression statement raises.
ImportVisitStmt(iv, file, root, fs, checkExists, stmt, line) ==
    IF stmt.k = "import"
    THEN LET r == ResolveModulePath(file, root, stmt.path)
             im == [module_path |-> stmt.path, is_external |-> r.ext,
                    is_absolute |-> r.abs, is_relative |-> r.rel,
                    resolved_path |-> r.resolved, lineno |-> line]
             missing ==
                 IF checkExists /\ r.resolved # NoPath /\ r.resolved \notin fs
                 THEN <<[line |-> line,
                         msg |-> [kind |-> "does_not_exist",
                                  path |-> stmt.path,
                                  resolved |-> r.resolved]]>>
                 ELSE <<>>
         IN  [iv EXCEPT !.vars = @ \cup {stmt.var},
                        !.calls = DSet(@, stmt.var, im),
                        !.violations = @ \o missing \o
                            CheckNamingConvention(iv.level, line, stmt.var, FALSE)]
    ELSE IF stmt.k = "alias"
    THEN LET al == DSet(iv.aliases, stmt.var, stmt.src)
         IN  [iv EXCEPT !.aliases = al,
                        !.violations = @ \o
                            (IF IsImportModuleVar(iv.vars, al, stmt.src)
                                /\ iv.level = 0
                             THEN CheckNamingConvention(iv.level, line, stmt.var,
                                                        TRUE)
                             ELSE <<>>)]
    ELSE IF stmt.k = "tuple"
    THEN ImportVisitTuple(iv, file, root, stmt, line, 1)
    ELSE IF stmt.k = "assignbad" THEN IvEnterScope(iv)
    ELSE IF stmt.k = "badcomp" THEN [IvEnterScope(iv) EXCEPT !.raised = TRUE]
    ELSE iv

\* the statements of a block in order, up to the one that raises
RECURSIVE ImportVisitBody(_, _, _, _, _, _, _)
ImportVisitBody(iv, file, root, fs, checkExists, body, line) ==
    IF body = <<>> \/ iv.raised THEN iv
    ELSE ImportVisitBody(
             ImportVisitStmt(iv, file, root, fs, checkExists, Head(body), line),
             file, root, fs, checkExists, Tail(body), line)

\* visit_FunctionDef walking the body without entering a scope
ImportVisitFunctionDefNoScope(iv, file, root, fs, checkExists, stmt, line) ==
    [ImportVisitBody(iv, file, root, fs, checkExists, stmt.body, line) EXCEPT !.raised = FALSE]

\* visit_FunctionDef: the scope is entered, the body visited and the scope
\* left; the except clause ends an exception raised in the body, and the
\* scope is then not left
ImportVisitFunctionDef(iv, file, root, fs, checkExists, stmt, line) ==
    With(ImportVisitBody(IvEnterScope(iv), file, root, fs, checkExists,
                         stmt.body, line),
         LAMBDA r : IF r.raised THEN [r EXCEPT !.raised = FALSE]
                    ELSE IvExitScope(r))

\* visit_Module on one top-level statement
ImportVisitTop(iv, file, root, fs, checkExists, s, line) ==
    IF s.k = "def"
    THEN ImportVisitFunctionDef(iv, file, root, fs, checkExists, s, line)
    ELSE ImportVisitStmt(iv, file, root, fs, checkExists, s, line)

\* visit_Module from statement i on: the statements of the file in order,
\* up to the one that lets an exception through
RECURSIVE ImportVisitFrom(_, _, _, _, _, _, _)
ImportVisitFrom(iv, file, root, fs, checkExists, stmts, i) ==
    IF i > Len(stmts) \/ iv.raised THEN iv
    ELSE ImportVisitFrom(
             ImportVisitTop(iv, file, root, fs, checkExists, stmts[i], i),
             file, root, fs, checkExists, stmts, i + 1)

\* visit(tree): visit_Module sets scope_level to 0
ImportVisit(file, root, fs, checkExists, stmts) ==
    ImportVisitFrom(ImportVisitorInit, file, root, fs, checkExists, stmts, 1)

\* get_import_info: var -> (module_path, package_id), in binding order;
\* NoPath stands for the package id None
PackageId(im) ==
    IF im.is_external /\ Len(im.module_path.segs) >= 3
    THEN Path(SubSeq(im.module_path.segs, 1, 3),
              im.module_path.star /\ Len(im.module_path.segs) = 3)
    ELSE NoPath

RECURSIVE GetImportInfo(_)
GetImportInfo(calls) ==
    IF calls = <<>> THEN <<>>
    ELSE <<[k |-> Head(calls).k,
            v |-> [module_path |-> Head(calls).v.module_path,
                   package_id |-> PackageId(Head(calls).v)]]>>
         \o GetImportInfo(Tail(calls))

(***************************************************************************)
(* UnifiedFunctionVisitor                                                  *)
(***************************************************************************)
\* analysis/visitors/common.py: names the call checks skip
BuiltinFunctions == {"import_module", "print", "len"}

BuiltinModules == {"plan", "json"}

\* the target-file lookup shared by _check_function_reference and
\* _check_imported_module_call; NoPath stands for None.  The callers test
\* 'not target_file', which holds for None and for the empty string
RECURSIVE FirstWithBasename(_, _)
FirstWithBasename(m2f, base) ==
    IF m2f = <<>> THEN NoPath
    ELSE IF Basename(Head(m2f).v) = base THEN Head(m2f).v
    ELSE FirstWithBasename(Tail(m2f), base)

ResolveTarget(file, modulePath, m2f) ==
    With(IF EndsWithStar(modulePath) THEN modulePath ELSE AddStar(modulePath),
         LAMBDA mp :
             IF DHas(m2f, mp) THEN DGet(m2f, mp)
             ELSE With(IF /\ IsRel(mp)
                          /\ DHas(m2f, Normpath(Join(Dirname(file), mp)))
                       THEN DGet(m2f, Normpath(Join(Dirname(file), mp)))
                       ELSE NoPath,
                       LAMBDA t :
                           IF PathStr(t) # "" THEN t
                           ELSE With(FirstWithBasename(m2f, Basename(mp)),
                                     LAMBDA fb : IF fb # NoPath THEN fb ELSE t)))

Viol(line, msg) == [line |-> line, msg |-> msg]

\* func_identifier of _check_call_compatibility
FuncIdentifier(sig, ctx, file) ==
    IF ctx # NoPath /\ PathStr(ctx) # "" /\ ctx # file
    THEN [module |-> Basename(ctx), name |-> sig.name]
    ELSE [module |-> NoPath, name |-> sig.name]

InSeq(x, s) == \E i \in 1..Len(s) : s[i] = x

SeqCount(s, P(_)) == Cardinality({i \in 1..Len(s) : P(s[i])})

\* visit_FunctionDef, lines 124-131: kwdefaults, a dict keyed by the name of
\* each keyword-only parameter; the value is the constant or None
KwDefaults(kwonly, kwdef) ==
    [i \in 1..Len(kwonly) |->
        [k |-> kwonly[i],
         v |-> IF kwonly[i] \in kwdef THEN "const" ELSE "None"]]

\* visit_FunctionDef, lines 100-150: the FunctionSignature of a def
FunctionSignature(stmt, file, line) ==
    [name |-> stmt.name, file_path |-> file, lineno |-> line,
     args |-> stmt.sig.args, ndef |-> stmt.sig.ndef,
     vararg |-> stmt.sig.vararg, kwonly |-> stmt.sig.kwonly,
     kwdefaults |-> KwDefaults(stmt.sig.kwonly, stmt.sig.kwdef),
     kwarg |-> stmt.sig.kwarg, doc |-> stmt.doc]

RECURSIVE SelectInOrder(_, _, _, _)
SelectInOrder(s, i, hi, kws) ==
    IF i > hi \/ i > Len(s) THEN <<>>
    ELSE (IF InSeq(s[i], kws) THEN <<>> ELSE <<s[i]>>)
         \o SelectInOrder(s, i + 1, hi, kws)

RECURSIVE InvalidKeywords(_, _, _, _)
InvalidKeywords(kws, sig, ident, line) ==
    IF kws = <<>> THEN <<>>
    ELSE (IF ~InSeq(Head(kws), sig.args) /\ ~InSeq(Head(kws), sig.kwonly)
             /\ sig.kwarg = NoParam
          THEN <<Viol(line, [kind |-> "invalid_keyword", arg |-> Head(kws),
                             func |-> ident])>>
          ELSE <<>>)
         \o InvalidKeywords(Tail(kws), sig, ident, line)

\* _check_call_compatibility: the violations it appends, and whether it
\* raises (signature.kwdefaults is a dict keyed by parameter name and is
\* indexed by position for the first keyword-only parameter: KeyError)
CheckCallCompatibility(call, sig, ctx, file, line) ==
    LET ident == FuncIdentifier(sig, ctx, file)
        nargs == Len(sig.args)
        required == nargs - sig.ndef
        tooMany ==
            IF call.npos > nargs /\ sig.vararg = NoParam
               /\ ~(call.npos - nargs <= Len(sig.kwonly))
            THEN <<Viol(line, [kind |-> "too_many_positional", func |-> ident])>>
            ELSE <<>>
        reqNames == SubSeq(sig.args, 1, required)
        IsReq(kw) == InSeq(kw, reqNames)
        provided == call.npos + SeqCount(call.kws, IsReq)
        missingArgs ==
            IF provided < required
            THEN SelectInOrder(sig.args, provided + 1, required, call.kws)
            ELSE <<>>
        missing ==
            IF missingArgs # <<>>
            THEN <<Viol(line, [kind |-> "missing_positional",
                               args |-> missingArgs, func |-> ident])>>
            ELSE <<>>
    IN  [violations |-> tooMany \o missing
                        \o InvalidKeywords(call.kws, sig, ident, line),
         raised |-> Len(sig.kwonly) > 0]

\* sites lists the calls visit_Call has checked so far, each with the
\* violations and the edges its own check added
FunctionVisitorInit(sharedExt) ==
    [functions |-> <<>>, violations |-> <<>>, ext |-> {},
     sharedExt |-> sharedExt, raised |-> FALSE, sites |-> <<>>]

\* self.external_calls.add(...) and shared_data['external_calls'].add(...)
RecordExternal(st, target, fn) ==
    [st EXCEPT !.ext = @ \cup {<<target, fn>>},
               !.sharedExt = @ \cup {<<target, fn>>}]

\* the effect of _check_call_compatibility on the visitor: the violations
\* appended before the keyword-only loop stay in self.violations when the
\* loop raises
ApplyCompat(st, r) ==
    [st EXCEPT !.violations = @ \o r.violations,
               !.raised = @ \/ r.raised]

\* _check_function_reference recording the edge although the target file
\* has no signature table yet
ReferenceToUnanalysedFile(st, file, imports, allf, m2f, obj, fn) ==
    IF DGet(imports, obj).package_id # NoPath THEN st
    ELSE With(ResolveTarget(file, DGet(imports, obj).module_path, m2f),
              LAMBDA target :
                  IF PathStr(target) = "" THEN st
                  ELSE IF ~DHas(allf, target) THEN RecordExternal(st, target, fn)
                  ELSE IF ~DHas(DGet(allf, target), fn) THEN st
                  ELSE IF target # file THEN RecordExternal(st, target, fn)
                  ELSE st)

\* _check_function_reference
CheckFunctionReference(st, file, imports, allf, m2f, obj, fn) ==
    IF DGet(imports, obj).package_id # NoPath THEN st
    ELSE With(ResolveTarget(file, DGet(imports, obj).module_path, m2f),
              LAMBDA target :
                  IF PathStr(target) = "" THEN st
                  ELSE IF ~DHas(allf, target) THEN st
                  ELSE IF ~DHas(DGet(allf, target), fn) THEN st
                  ELSE IF target # file THEN RecordExternal(st, target, fn)
                  ELSE st)

\* _check_imported_module_call recording the edge whatever the target file
ImportedModuleCallNoSelfTest(st, file, imports, allf, m2f, obj, fn, call, line) ==
    IF DGet(imports, obj).package_id # NoPath THEN st
    ELSE With(ResolveTarget(file, DGet(imports, obj).module_path, m2f),
              LAMBDA target :
                  IF PathStr(target) = ""
                  THEN [st EXCEPT !.violations =
                           Append(@, Viol(line, [kind |-> "could_not_resolve",
                                                 module |-> obj, fn |-> fn]))]
                  ELSE IF ~DHas(allf, target)
                  THEN [st EXCEPT !.violations =
                           Append(@, Viol(line, [kind |-> "not_analyzed",
                                                 module |-> obj, fn |-> fn]))]
                  ELSE IF ~DHas(DGet(allf, target), fn)
                  THEN [st EXCEPT !.violations =
                           Append(@, Viol(line, [kind |-> "non_existent_function",
                                                 module |-> obj, fn |-> fn]))]
                  ELSE With(CheckCallCompatibility(
                                call, DGet(DGet(allf, target), fn), target,
                                file, line),
                            LAMBDA r :
                                IF r.raised
                                THEN ApplyCompat(st, r)
                                ELSE RecordExternal(ApplyCompat(st, r),
                                                    target, fn)))

\* _check_imported_module_call recording the edge of a call to a function
\* the target file does not define
RecordsMissingFunction(st, file, imports, allf, m2f, obj, fn, call, line) ==
    IF DGet(imports, obj).package_id # NoPath THEN st
    ELSE With(ResolveTarget(file, DGet(imports, obj).module_path, m2f),
              LAMBDA target :
                  IF PathStr(target) = ""
                  THEN [st EXCEPT !.violations =
                           Append(@, Viol(line, [kind |-> "could_not_resolve",
                                                 module |-> obj, fn |-> fn]))]
                  ELSE IF ~DHas(allf, target)
                  THEN [st EXCEPT !.violations =
                           Append(@, Viol(line, [kind |-> "not_analyzed",
                                                 module |-> obj, fn |-> fn]))]
                  ELSE IF ~DHas(DGet(allf, target), fn)
                  THEN RecordExternal(
                           [st EXCEPT !.violations =
                            Append(@, Viol(line, [kind |-> "non_existent_function",
                                                  module |-> obj, fn |-> fn]))],
                           target, fn)
                  ELSE With(CheckCallCompatibility(
                                call, DGet(DGet(allf, target), fn), target,
                                file, line),
                            LAMBDA r :
                                IF r.raised \/ target = file
                                THEN ApplyCompat(st, r)
                                ELSE RecordExternal(ApplyCompat(st, r),
                                                    target, fn)))

\* _check_imported_module_call
CheckImportedModuleCall(st, file, imports, allf, m2f, obj, fn, call, line) ==
    IF DGet(imports, obj).package_id # NoPath THEN st
    ELSE With(ResolveTarget(file, DGet(imports, obj).module_path, m2f),
              LAMBDA target :
                  IF PathStr(target) = ""
                  THEN [st EXCEPT !.violations =
                           Append(@, Viol(line, [kind |-> "could_not_resolve",
                                                 module |-> obj, fn |-> fn]))]
                  ELSE IF ~DHas(allf, target)
                  THEN [st EXCEPT !.violations =
                           Append(@, Viol(line, [kind |-> "not_analyzed",
                                                 module |-> obj, fn |-> fn]))]
                  ELSE IF ~DHas(DGet(allf, target), fn)
                  THEN [st EXCEPT !.violations =
                           Append(@, Viol(line, [kind |-> "non_existent_function",
                                                 module |-> obj, fn |-> fn]))]
                  ELSE With(CheckCallCompatibility(
                                call, DGet(DGet(allf, target), fn), target,
                                file, line),
                            LAMBDA r :
                                IF r.raised \/ target = file
                                THEN ApplyCompat(st, r)
                                ELSE RecordExternal(ApplyCompat(st, r),
                                                    target, fn)))

\* files of all_functions, in dict order, that define fn
RECURSIVE MatchingFiles(_, _)
MatchingFiles(allf, fn) ==
    IF allf = <<>> THEN <<>>
    ELSE (IF DHas(Head(allf).v, fn) THEN <<Head(allf).k>> ELSE <<>>)
         \o MatchingFiles(Tail(allf), fn)

RECURSIVE FirstOther(_, _)
FirstOther(files, file) ==
    IF files = <<>> THEN NoPath
    ELSE IF Head(files) # file THEN Head(files)
    ELSE FirstOther(Tail(files), file)

\* visit_Call, callee a bare name
VisitBareCall(st, file, allf, fn, call, line) ==
    IF fn \in BuiltinFunctions THEN st
    ELSE IF DHas(st.functions, fn)
    THEN ApplyCompat(st, CheckCallCompatibility(call, DGet(st.functions, fn),
                                                NoPath, file, line))
    ELSE With(MatchingFiles(allf, fn),
              LAMBDA matching :
                  IF Len(matching) = 1
                  THEN With(CheckCallCompatibility(
                                call, DGet(DGet(allf, matching[1]), fn),
                                matching[1], file, line),
                            LAMBDA r :
                                IF r.raised \/ matching[1] = file
                                THEN ApplyCompat(st, r)
                                ELSE RecordExternal(ApplyCompat(st, r),
                                                    matching[1], fn))
                  ELSE IF Len(matching) > 0 /\ FirstOther(matching, file) # NoPath
                  THEN RecordExternal(st, FirstOther(matching, file), fn)
                  ELSE st)

\* visit_Call, callee an attribute of a name
VisitQualifiedCall(st, file, imports, allf, m2f, scope, obj, fn, call, line) ==
    IF obj \in BuiltinModules THEN st
    ELSE IF DHas(imports, obj)
    THEN CheckImportedModuleCall(st, file, imports, allf, m2f, obj, fn, call, line)
    ELSE IF obj \in scope THEN st
    ELSE [st EXCEPT !.violations =
             Append(@, Viol(line, [kind |-> "invalid_object",
                                   module |-> obj, fn |-> fn]))]

\* visit_Call, lines 322-418: the check of the callee
CheckCallee(st, file, imports, allf, m2f, scope, stmt, line) ==
    IF stmt.k = "bcall"
    THEN VisitBareCall(st, file, allf, stmt.fn, stmt, line)
    ELSE VisitQualifiedCall(st, file, imports, allf, m2f, scope,
                            stmt.obj, stmt.fn, stmt, line)

\* the visitor after the check of the callee of stmt, which began in st
LogSite(st, st2, stmt, line) ==
    [st2 EXCEPT !.sites =
        Append(@, [line |-> line, call |-> stmt,
                   added |-> SubSeq(st2.violations, Len(st.violations) + 1,
                                    Len(st2.violations)),
                   edges |-> st2.ext \ st.ext,
                   raised |-> st2.raised])]

\* visit_Assign / visit_List / visit_Tuple / visit_Dict on a value that holds
\* the attribute obj.fn
VisitReference(st, file, imports, allf, m2f, stmt) ==
    IF DHas(imports, stmt.obj)
    THEN CheckFunctionReference(st, file, imports, allf, m2f, stmt.obj, stmt.fn)
    ELSE st

\* visit_Call, lines 298-321: the arguments, then the keyword values, that
\* are themselves an attribute of a name
RECURSIVE CheckReferenceArguments(_, _, _, _, _, _)
CheckReferenceArguments(st, file, imports, allf, m2f, nested) ==
    IF nested = <<>> THEN st
    ELSE CheckReferenceArguments(
             IF Head(nested).via = "ref" /\ Head(nested).call.form = "assign"
             THEN VisitReference(st, file, imports, allf, m2f, Head(nested).call)
             ELSE st,
             file, imports, allf, m2f, Tail(nested))

RECURSIVE VisitCall(_, _, _, _, _, _, _, _, _)
RECURSIVE VisitArguments(_, _, _, _, _, _, _, _, _)

\* self.visit(arg) on an argument: visit_Call on a call, visit_ListComp
\* (which visits node.elt alone, with the target in scope) on a
\* comprehension, visit_List / visit_Tuple / visit_Dict on a container that
\* holds an attribute, nothing on a bare attribute
VisitArgument(st, file, imports, allf, m2f, checkCalls, scope, n, line) ==
    IF st.raised THEN st
    ELSE IF n.via = "direct"
    THEN VisitCall(st, file, imports, allf, m2f, checkCalls, scope, n.call, line)
    ELSE IF n.via = "comp_elt"
    THEN VisitCall(st, file, imports, allf, m2f, checkCalls,
                   scope \cup {CompVar}, n.call, line)
    ELSE IF n.via = "ref" /\ n.call.form # "assign"
    THEN VisitReference(st, file, imports, allf, m2f, n.call)
    ELSE st

\* visit_Call, lines 421-427: the arguments, then the keyword values
VisitArguments(st, file, imports, allf, m2f, checkCalls, scope, nested, line) ==
    IF nested = <<>> THEN st
    ELSE VisitArguments(
             VisitArgument(st, file, imports, allf, m2f, checkCalls, scope,
                           Head(nested), line),
             file, imports, allf, m2f, checkCalls, scope, Tail(nested), line)

\* visit_Call from the check of the callee on, in the visitor st
VisitCallee(st, file, imports, allf, m2f, checkCalls, scope, stmt, line) ==
    VisitArguments(
        LogSite(st, CheckCallee(st, file, imports, allf, m2f, scope, stmt, line),
                stmt, line),
        file, imports, allf, m2f, checkCalls, scope, stmt.nested, line)

\* visit_Call
VisitCall(st, file, imports, allf, m2f, checkCalls, scope, stmt, line) ==
    IF ~checkCalls THEN st
    ELSE VisitCallee(
             CheckReferenceArguments(st, file, imports, allf, m2f, stmt.nested),
             file, imports, allf, m2f, checkCalls, scope, stmt, line)

\* the call import_module(...) that is the value v of an assignment
ImportCall(v) ==
    BCall("import_module",
          IF v.e = "badimport" /\ v.arg = "missing" THEN 0 ELSE 1, <<>>)

\* self.visit(node.value) of visit_Assign on the values v1, v2, ... of an
\* assignment (visit_Tuple when there are several): visit_Call on every
\* import_module call
RECURSIVE VisitValues(_, _, _, _, _, _, _, _, _)
VisitValues(st, file, imports, allf, m2f, checkCalls, scope, values, line) ==
    IF values = <<>> THEN st
    ELSE VisitValues(
             IF Head(values).e \in {"import", "badimport"}
             THEN VisitCall(st, file, imports, allf, m2f, checkCalls, scope,
                            ImportCall(Head(values)), line)
             ELSE st,
             file, imports, allf, m2f, checkCalls, scope, Tail(values), line)

\* the right-hand side of an assignment statement, as a list of values
ValuesOf(stmt) ==
    IF stmt.k = "import" THEN <<ImportValue(stmt.path)>>
    ELSE IF stmt.k = "badimport" THEN <<BadImportValue(stmt.arg)>>
    ELSE IF stmt.k = "tuple" THEN stmt.values
    ELSE <<>>

\* a simple statement (anything but a def); BaseVisitor.visit_ListComp
\* raises on the comprehension with a tuple target, which visit_Assign
\* visits as the value and visit_Call as the argument of print, after the
\* check of the callee
VisitSimple(st, file, imports, allf, m2f, checkCalls, scope, stmt, line) ==
    IF st.raised THEN st
    ELSE IF stmt.k \in {"import", "badimport", "tuple"}
    THEN VisitValues(st, file, imports, allf, m2f, checkCalls, scope,
                     ValuesOf(stmt), line)
    ELSE IF stmt.k \in {"bcall", "qcall"}
    THEN VisitCall(st, file, imports, allf, m2f, checkCalls, scope, stmt, line)
    ELSE IF stmt.k = "ref"
    THEN VisitReference(st, file, imports, allf, m2f, stmt)
    ELSE IF stmt.k = "assignbad" THEN [st EXCEPT !.raised = TRUE]
    ELSE IF stmt.k = "badcomp" /\ checkCalls
    THEN [LogSite(st, st, BCall("print", 1, <<>>), line) EXCEPT !.raised = TRUE]
    ELSE st

RECURSIVE VisitBody(_, _, _, _, _, _, _, _, _)
VisitBody(st, file, imports, allf, m2f, checkCalls, scope, body, line) ==
    IF body = <<>> THEN st
    ELSE VisitBody(VisitSimple(st, file, imports, allf, m2f, checkCalls, scope,
                               Head(body), line),
                   file, imports, allf, m2f, checkCalls, scope, Tail(body), line)

SeqToSet(s) == {s[i] : i \in 1..Len(s)}

\* visit_FunctionDef: record the signature, then walk the body with the
\* parameters in scope
VisitFunctionDef(st, file, imports, allf, m2f, checkCalls, stmt, line) ==
    IF st.raised THEN st
    ELSE VisitBody([st EXCEPT !.functions =
                       DSet(@, stmt.name, FunctionSignature(stmt, file, line))],
                   file, imports, allf, m2f, checkCalls,
                   SeqToSet(stmt.sig.args) \cup SeqToSet(stmt.sig.kwonly)
                       \cup ({stmt.sig.vararg, stmt.sig.kwarg} \ {NoParam}),
                   stmt.body, line)

RECURSIVE FunctionVisitFrom(_, _, _, _, _, _, _, _)
FunctionVisitFrom(st, file, imports, allf, m2f, checkCalls, stmts, i) ==
    IF i > Len(stmts) THEN st
    ELSE FunctionVisitFrom(
             IF stmts[i].k = "def"
             THEN VisitFunctionDef(st, file, imports, allf, m2f, checkCalls,
                                   stmts[i], i)
             ELSE VisitSimple(st, file, imports, allf, m2f, checkCalls, {},
                              stmts[i], i),
             file, imports, allf, m2f, checkCalls, stmts, i + 1)

\* analyze_function_visibility without the exemption of test_ functions
RECURSIVE VisibilityNoTestExemption(_, _, _)
VisibilityNoTestExemption(file, functions, externalCalls) ==
    IF functions = <<>> THEN <<>>
    ELSE LET f == Head(functions).v
             used == <<file, f.name>> \in externalCalls
             v == IF StartsWithUnderscore(f.name) THEN <<>>
                  ELSE IF used /\ ~f.doc
                  THEN <<Viol(f.lineno, [kind |-> "should_be_documented",
                                         name |-> f.name])>>
                  ELSE IF ~used /\ ~f.doc
                  THEN <<Viol(f.lineno, [kind |-> "consider_private",
                                         name |-> f.name])>>
                  ELSE <<>>
         IN  v \o VisibilityNoTestExemption(file, Tail(functions), externalCalls)

\* analyze_function_visibility: the edge set it consults
EffectiveExternalCalls(sharedExt, selfExt) ==
    IF sharedExt # {} THEN sharedExt ELSE selfExt

\* analyze_function_visibility over the functions of the file, in dict order
RECURSIVE AnalyzeFunctionVisibility(_, _, _)
AnalyzeFunctionVisibility(file, functions, externalCalls) ==
    IF functions = <<>> THEN <<>>
    ELSE LET f == Head(functions).v
             used == <<file, f.name>> \in externalCalls
             v == IF StartsWithUnderscore(f.name) THEN <<>>
                  ELSE IF StartsWithTest(f.name) THEN <<>>
                  ELSE IF used /\ ~f.doc
                  THEN <<Viol(f.lineno, [kind |-> "should_be_documented",
                                         name |-> f.name])>>
                  ELSE IF ~used /\ ~f.doc
                  THEN <<Viol(f.lineno, [kind |-> "consider_private",
                                         name |-> f.name])>>
                  ELSE <<>>
         IN  v \o AnalyzeFunctionVisibility(file, Tail(functions), externalCalls)

(***************************************************************************)
(* unified_analyzer.analyze_file                                           *)
(***************************************************************************)
RECURSIVE UpdateModuleToFile(_, _)
UpdateModuleToFile(m2f, calls) ==
    IF calls = <<>> THEN m2f
    ELSE UpdateModuleToFile(
             IF Head(calls).v.resolved_path # NoPath
                /\ PathStr(Head(calls).v.resolved_path) # ""
             THEN DSet(m2f, Head(calls).v.module_path, Head(calls).v.resolved_path)
             ELSE m2f,
             Tail(calls))

\* the except clause returning nothing
ErrorSwallowed(file) == <<>>

\* analyze_file, lines 145-146: what the except clause returns
ErrorViolation(file) == <<Viol(0, [kind |-> "error", file |-> file])>>

\* analyze_file, lines 118-142: the function visitor has run; its functions
\* and edges go to the shared data, then the visibility analysis runs
AnalyzeFileResult(file, checks, v0, sh1, fv) ==
    LET sh2 == [sh1 EXCEPT
                   !.external_calls = fv.sharedExt,
                   !.all_functions = IF fv.functions # <<>>
                                     THEN DSet(@, file, fv.functions) ELSE @]
        sh3 == IF checks.function_visibility
               THEN [sh2 EXCEPT !.external_calls = @ \cup fv.ext]
               ELSE sh2
        edges == EffectiveExternalCalls(sh3.external_calls, fv.ext)
        vis == IF checks.function_visibility
               THEN AnalyzeFunctionVisibility(file, fv.functions, edges)
               ELSE <<>>
    IN  IF fv.raised
        THEN [violations |-> ErrorViolation(file),
              shared |-> [sh1 EXCEPT !.external_calls = fv.sharedExt],
              ran |-> TRUE, raised |-> TRUE, functions |-> fv.functions,
              ext |-> fv.ext, visEdges |-> {}, vis |-> <<>>,
              sites |-> fv.sites]
        ELSE [violations |-> v0 \o fv.violations \o vis, shared |-> sh3,
              ran |-> TRUE, raised |-> FALSE, functions |-> fv.functions,
              ext |-> fv.ext, visEdges |-> edges, vis |-> vis,
              sites |-> fv.sites]

\* analyze_file, lines 88-116: the function visitor runs when the call or
\* the visibility check is enabled
AnalyzeFileFunctions(file, checks, stmts, v0, imports, sh1) ==
    IF ~(checks.calls \/ checks.function_visibility)
    THEN [violations |-> v0, shared |-> sh1, ran |-> FALSE, raised |-> FALSE,
          functions |-> <<>>, ext |-> {}, visEdges |-> {}, vis |-> <<>>,
          sites |-> <<>>]
    ELSE AnalyzeFileResult(
             file, checks, v0, sh1,
             FunctionVisitFrom(FunctionVisitorInit(sh1.external_calls), file,
                               imports, sh1.all_functions, sh1.module_to_file,
                               checks.calls, stmts, 1))

\* analyze_file, lines 57-85: the import visitor has run; its imports and
\* resolved paths go to the shared data, unless it let an exception through,
\* which the except clause of analyze_file turns into the error violation
AnalyzeFileImports(file, checks, shared, stmts, iv) ==
    IF iv.raised
    THEN [violations |-> ErrorViolation(file), shared |-> shared,
          ran |-> FALSE, raised |-> TRUE, functions |-> <<>>, ext |-> {},
          visEdges |-> {}, vis |-> <<>>, sites |-> <<>>]
    ELSE AnalyzeFileFunctions(
             file, checks, stmts,
             IF checks.import_naming THEN iv.violations ELSE <<>>,
             GetImportInfo(iv.calls),
             [shared EXCEPT
                 !.imports = DSet(@, file, GetImportInfo(iv.calls)),
                 !.module_to_file = UpdateModuleToFile(@, iv.calls)])

\* analyze_file(file, checks, shared, root) on the source text stmts, with fs
\* the set of files on disk: the returned violations, the shared data after
\* the call, and what the function visitor collected
AnalyzeFile(file, checks, shared, root, fs, stmts) ==
    AnalyzeFileImports(file, checks, shared, stmts,
                       ImportVisit(file, root, fs, TRUE, stmts))

(***************************************************************************)
(* unified_analyzer.analyze_files                                          *)
(***************************************************************************)
\* os.getcwd(): the directory the linter runs in; the input files are named
\* by absolute paths, so no relative path depends on it
Cwd == Path(<<"", "ws">>, FALSE)

SharedInit ==
    [all_functions |-> <<>>, module_to_file |-> <<>>, imports |-> <<>>,
     external_calls |-> {}]

\* the module_to_file entries of one input file
OwnEntries(m2f, f, root) ==
    IF ~EndsWithStar(f) THEN m2f
    ELSE DSet(IF IsUnder(f, root)
              THEN With(StripRoot(f, root),
                        LAMBDA rel :
                            DSet(DSet(DSet(m2f, f, f), rel, f),
                                 ParsePath("/" \o PathStr(rel)), f))
              ELSE DSet(m2f, f, f),
              Basename(f), f)

RECURSIVE OwnEntriesAll(_, _, _, _)
OwnEntriesAll(m2f, files, i, root) ==
    IF i > Len(files) THEN m2f
    ELSE OwnEntriesAll(OwnEntries(m2f, files[i], root), files, i + 1, root)

\* the entries for the relative paths from one input file to the others
RECURSIVE RelativeEntries(_, _, _, _)
RelativeEntries(m2f, source, files, j) ==
    IF j > Len(files) THEN m2f
    ELSE RelativeEntries(
             IF source = files[j] \/ ~EndsWithStar(files[j]) THEN m2f
             ELSE With(Relpath(files[j], Dirname(source), Cwd),
                       LAMBDA rel :
                           DSet(DSet(m2f, rel, files[j]),
                                WithPrefix(".", rel), files[j])),
             source, files, j + 1)

RECURSIVE RelativeEntriesAll(_, _, _)
RelativeEntriesAll(m2f, files, i) ==
    IF i > Len(files) THEN m2f
    ELSE RelativeEntriesAll(
             IF EndsWithStar(files[i])
             THEN RelativeEntries(m2f, files[i], files, 1) ELSE m2f,
             files, i + 1)

SetupModuleToFile(files, root) ==
    RelativeEntriesAll(OwnEntriesAll(<<>>, files, 1, root), files, 1)

\* first_pass_checks
FirstPassChecks(checks) ==
    [checks EXCEPT !.calls = TRUE, !.function_visibility = FALSE]

\* the first loop leaving one file early
AfterPass1Early(i, n) ==
    IF i < n - 1 THEN [pc |-> "pass1", idx |-> i + 1] ELSE [pc |-> "pass2", idx |-> 1]

\* the loop counters of the two passes: where control goes after the
\* analysis of the i-th of n files
AfterPass1(i, n) ==
    IF i < n THEN [pc |-> "pass1", idx |-> i + 1] ELSE [pc |-> "pass2", idx |-> 1]

AfterPass2(i, n) ==
    IF i < n THEN [pc |-> "pass2", idx |-> i + 1] ELSE [pc |-> "return", idx |-> i]

\* every file entered in the result, empty lists included
CollectAlways(res, file, fileViolations) == DSet(res, file, fileViolations)

\* violations[file_path] = file_violations, only when there are any
Collect(res, file, fileViolations) ==
    IF fileViolations # <<>> THEN DSet(res, file, fileViolations) ELSE res

(***************************************************************************)
(* The workspace of the model                                              *)
(***************************************************************************)
MaxFiles == 3

Root == Path(<<"", "ws">>, FALSE)

FileA == Path(<<"", "ws", "a">>, TRUE)

FileB == Path(<<"", "ws", "b">>, TRUE)

FileC == Path(<<"", "ws", "c">>, TRUE)

Pool == {FileA, FileB, FileC}

RelB == Path(<<".", "b">>, TRUE)

RelA == Path(<<".", "a">>, TRUE)

AbsB == Path(<<"", "b">>, TRUE)

RelMissing == Path(<<".", "m">>, TRUE)

ExternalX == Path(<<"github.com", "o", "r", "x">>, TRUE)

\* the empty string
EmptyPath == Path(<<"">>, FALSE)

Sig0 == Sig(<<>>, 0, NoParam, <<>>, NoParam)

Sig1 == Sig(<<"x">>, 0, NoParam, <<>>, NoParam)

SigK == Sig(<<>>, 0, NoParam, <<"k">>, NoParam)

\* def g(*rest, **extra)
SigV == Sig(<<>>, 0, "rest", <<>>, "extra")

\* a file that imports itself and refers to its own function in every way
SelfRefSource ==
    <<Import("_a", RelA), BCall("h", 0, <<>>),
      Def("h", TRUE, Sig0, <<Ref("assign", "_a", "h")>>),
      QCall("_a", "h", 0, <<>>)>>

ContentsA ==
    { <<Import("_b", RelB), QCall("_b", "f", 0, <<>>)>>,
      <<Import("_b", RelB), Ref("assign", "_b", "f")>>,
      <<Import("_b", RelB), Ref("list", "_b", "f")>>,
      <<Import("_b", RelB), Ref("tuple", "_b", "f")>>,
      <<BCall("f", 0, <<>>)>>,
      SelfRefSource,
      <<Import("b", AbsB), Alias("al", "b"),
        Def("g", FALSE, Sig1, <<QCall("b", "test_f", 0, <<>>),
                                Ref("assign", "b", "_f"),
                                QCall("x", "f", 0, <<>>)>>),
        QCall("zz", "f", 0, <<>>)>>,
      <<Import("_m", RelMissing), QCall("_m", "f", 0, <<>>),
        Import("_x", ExternalX), QCall("_x", "f", 0, <<>>),
        Import("_b", RelB), QCall("_b", "nope", 0, <<>>)>>,
      <<Import("_b", RelB),
        WithArgs(BCall("print", 1, <<>>),
                 <<Nested(1, "direct", QCall("_b", "nope", 0, <<>>))>>),
        WithArgs(QCall("zz", "g", 1, <<"k">>),
                 <<Nested(1, "direct", QCall("_b", "f", 0, <<>>)),
                   Nested(2, "direct",
                          WithArgs(QCall("_b", "nope", 1, <<>>),
                                   <<Nested(1, "direct",
                                            QCall("_b", "f", 1, <<>>))>>))>>),
        WithArgs(QCall("_b", "f", 1, <<>>),
                 <<Nested(1, "direct", QCall("_b", "f", 0, <<>>))>>)>>,
      <<Import("_b", RelB), Import("_m", RelMissing),
        WithArgs(QCall("_m", "f", 1, <<>>),
                 <<Nested(1, "comp_elt", QCall("it", "f", 0, <<>>))>>),
        WithArgs(BCall("len", 1, <<>>),
                 <<Nested(1, "comp_iter", QCall("_b", "nope", 0, <<>>))>>),
        WithArgs(QCall("_b", "nope", 0, <<"k">>),
                 <<Nested(1, "comp_elt", QCall("_b", "f", 0, <<>>))>>)>>,
      <<BCall("f", 2, <<>>), Def("f", TRUE, Sig1, <<>>), BCall("f", 2, <<>>)>>,
      <<Import("_b", RelB),
        WithArgs(BCall("print", 1, <<>>),
                 <<Nested(1, "ref", Ref("assign", "_b", "f"))>>),
        WithArgs(QCall("zz", "g", 1, <<"k">>),
                 <<Nested(1, "ref", Ref("list", "_b", "f")),
                   Nested(2, "ref", Ref("assign", "_b", "nope"))>>),
        Def("g", TRUE, SigV, <<QCall("rest", "f", 0, <<>>),
                               QCall("kwargs", "f", 0, <<>>)>>),
        BadImport("q", "missing"),
        TupleAssign(<<"s", "t">>, <<ImportValue(RelB), ConstValue>>)>>,
      <<Import("_b", RelB), Def("g", TRUE, Sig0, <<BadCompExpr>>),
        Import("X", RelB), QCall("_b", "f", 0, <<>>)>>,
      <<BadCompAssign("v"), Import("X", RelB)>>,
      <<Import("X", RelB), BadCompExpr>> }

ContentsB ==
    { <<Def("f", FALSE, Sig0, <<>>)>>,
      <<Def("f", TRUE, Sig0, <<>>)>>,
      <<Def("_f", FALSE, Sig0, <<>>), Def("test_f", FALSE, Sig0, <<>>)>>,
      <<Alias("y", "zz")>>,
      <<Def("f", FALSE, Sig1, <<>>)>>,
      <<Def("f", FALSE, SigK, <<>>)>>,
      <<Import("_a", RelA), Def("f", FALSE, Sig0, <<>>),
        QCall("_a", "h", 1, <<>>)>> }

ContentsC ==
    { <<Def("f", FALSE, Sig0, <<>>)>>,
      <<Import("_b", RelB), Ref("tuple", "_b", "f")>>,
      <<Def("g", TRUE, Sig0, <<BCall("f", 0, <<>>)>>)>> }

Sources ==
    {[f \in Pool |-> IF f = FileA THEN a ELSE IF f = FileB THEN b ELSE c] :
        a \in ContentsA, b \in ContentsB, c \in ContentsC}

\* the input lists: distinct files of the pool
FileLists ==
    UNION {{s \in [1..n -> Pool] : \A i, j \in 1..n : s[i] = s[j] => i = j} :
           n \in 1..MaxFiles}

CheckSets ==
    [import_naming : BOOLEAN, calls : BOOLEAN, function_visibility : BOOLEAN]

(***************************************************************************)
(* State                                                                   *)
(***************************************************************************)
VARIABLES
    files,      \* file_paths
    checks,     \* checks
    src,        \* the text of every file on disk
    pc,         \* position in analyze_files
    idx,        \* loop index of the running pass
    shared,     \* shared_data
    result,     \* violations, the dict analyze_files returns
    n1,         \* per file, the number of pass-1 analyses so far
    n2,         \* per file, the number of pass-2 analyses so far
    contrib1,   \* per file, what its pass-1 analysis contributed
    p1viol,     \* per file, what its pass-1 analyze_file call returned
    p2viol,     \* per file, what its pass-2 analyze_file call returned
    recorded,   \* <<analysed file, target file, function>> of every edge added
    visCall,    \* the last call of analyze_function_visibility
    last,       \* the last analyze_file call: pass, file, shared data before
    raisedEver, \* whether some analyze_file call caught an exception
    imv,        \* the activation record of _is_import_module_var
    ivp,        \* an import visitor walking one module, statement by statement
    cc,         \* one call checked against one signature
    wk,         \* one visitor walking one tree
    so,         \* one BaseVisitor under a sequence of scope operations
    af          \* one analyze_file call on a caller-supplied shared_data

vars == <<files, checks, src, pc, idx, shared, result, n1, n2, contrib1,
          p1viol, p2viol, recorded, visCall, last, raisedEver, imv, ivp, cc,
                   wk, so, af>>

NoVisCall == [file |-> NoPath, functions |-> <<>>, edges |-> {}, out |-> <<>>]

NoLast == [pass |-> 0, file |-> NoPath, before |-> SharedInit, raised |-> FALSE,
           sites |-> <<>>]

ImvIdle == [vars |-> {}, aliases |-> <<>>, start |-> "", var |-> "",
            visited |-> {}, pc |-> "idle", result |-> FALSE]

NoContribution == [imports |-> <<>>, functions |-> <<>>, edges |-> {}]

IvpIdle == [stmts |-> <<>>, i |-> 0, iv |-> ImportVisitorInit,
            before |-> ImportVisitorInit, info |-> <<>>, pc |-> "idle",
            fs |-> Pool, checkExists |-> TRUE]

CcIdle == [sig |-> FunctionSignature(Def("f", TRUE, Sig0, <<>>), FileB, 1),
           call |-> QCall("_b", "f", 0, <<>>),
           st |-> FunctionVisitorInit({}), returned |-> <<>>, pc |-> "idle"]

WkIdle == [kind |-> "base", tree |-> <<>>, imports |-> {}, ctl |-> <<>>,
           scopes |-> <<{}>>, assigns |-> <<{}>>, frames |-> <<{}>>,
           level |-> 0, violations |-> <<>>, sites |-> <<>>, log |-> <<>>,
           status |-> "idle"]

SoIdle == [scopes |-> <<{}>>, assigns |-> <<{}>>, hist |-> <<>>,
           pc |-> "idle"]

AfIdle == [pc |-> "idle"]

OthersIdle ==
    /\ wk = WkIdle
    /\ so = SoIdle
    /\ af = AfIdle

Init ==
    /\ files \in FileLists
    /\ checks \in CheckSets
    /\ src \in Sources
    /\ pc = "setup"
    /\ idx = 0
    /\ shared = SharedInit
    /\ result = <<>>
    /\ n1 = [f \in Pool |-> 0]
    /\ n2 = [f \in Pool |-> 0]
    /\ contrib1 = [f \in Pool |-> NoContribution]
    /\ p1viol = [f \in Pool |-> <<>>]
    /\ p2viol = [f \in Pool |-> <<>>]
    /\ recorded = {}
    /\ visCall = NoVisCall
    /\ last = NoLast
    /\ raisedEver = FALSE
    /\ imv = ImvIdle
    /\ ivp = IvpIdle
    /\ cc = CcIdle
    /\ OthersIdle

Edges3(file, ext) == {<<file, e[1], e[2]>> : e \in ext}

\* analyze_files, lines 166-210: fresh shared data and the lookup table
Setup ==
    /\ pc = "setup"
    /\ shared' = [SharedInit EXCEPT
                     !.module_to_file = SetupModuleToFile(files, Root)]
    /\ pc' = "pass1"
    /\ idx' = 1
    /\ UNCHANGED <<files, checks, src, result, n1, n2, contrib1, p1viol,
                   p2viol, recorded, visCall, last, raisedEver, imv, ivp, cc,
                   wk, so, af>>

\* one iteration of the first loop: analyze_file with first_pass_checks, the
\* returned violations dropped
Pass1Step ==
    /\ pc = "pass1"
    /\ \E r \in {AnalyzeFile(files[idx], FirstPassChecks(checks), shared, Root,
                            Pool, src[files[idx]])} :
       LET f == files[idx]
           nx == AfterPass1(idx, Len(files))
       IN  /\ shared' = r.shared
           /\ n1' = [n1 EXCEPT ![f] = @ + 1]
           /\ contrib1' = [contrib1 EXCEPT ![f] =
                              [imports |-> IF DHas(r.shared.imports, f)
                                           THEN DGet(r.shared.imports, f)
                                           ELSE <<>>,
                               functions |-> r.functions, edges |-> r.ext]]
           /\ p1viol' = [p1viol EXCEPT ![f] = r.violations]
           /\ recorded' = recorded \cup Edges3(f, r.ext)
           /\ last' = [pass |-> 1, file |-> f, before |-> shared,
                       raised |-> r.raised, sites |-> r.sites]
           /\ raisedEver' = (raisedEver \/ r.raised)
           /\ pc' = nx.pc
           /\ idx' = nx.idx
    /\ UNCHANGED <<files, checks, src, result, n2, p2viol, visCall, imv, ivp, cc,
                   wk, so, af>>

\* one iteration of the second loop: analyze_file with the caller's checks,
\* the returned violations kept when there are any
Pass2Step ==
    /\ pc = "pass2"
    /\ \E r \in {AnalyzeFile(files[idx], checks, shared, Root, Pool,
                            src[files[idx]])} :
       LET f == files[idx]
           nx == AfterPass2(idx, Len(files))
       IN  /\ shared' = r.shared
           /\ n2' = [n2 EXCEPT ![f] = @ + 1]
           /\ p2viol' = [p2viol EXCEPT ![f] = r.violations]
           /\ result' = Collect(result, f, r.violations)
           /\ recorded' = recorded \cup Edges3(f, r.ext)
           /\ visCall' = IF checks.function_visibility /\ ~r.raised
                         THEN [file |-> f, functions |-> r.functions,
                               edges |-> r.visEdges, out |-> r.vis]
                         ELSE visCall
           /\ last' = [pass |-> 2, file |-> f, before |-> shared,
                       raised |-> r.raised, sites |-> r.sites]
           /\ raisedEver' = (raisedEver \/ r.raised)
           /\ pc' = nx.pc
           /\ idx' = nx.idx
    /\ UNCHANGED <<files, checks, src, n1, contrib1, p1viol, imv, ivp, cc,
                   wk, so, af>>

\* return violations
Return ==
    /\ pc = "return"
    /\ pc' = "done"
    /\ UNCHANGED <<files, checks, src, idx, shared, result, n1, n2, contrib1,
                   p1viol, p2viol, recorded, visCall, last, raisedEver, imv, ivp, cc,
                   wk, so, af>>

Next == Setup \/ Pass1Step \/ Pass2Step \/ Return

Spec == Init /\ [][Next]_vars

(***************************************************************************)
(* analyze_files as a function of its inputs                               *)
(***************************************************************************)
RECURSIVE RunPass1(_, _, _, _, _, _)
RunPass1(sh, fl, i, hi, ck, sr) ==
    IF i > hi THEN sh
    ELSE RunPass1(AnalyzeFile(fl[i], FirstPassChecks(ck), sh, Root, Pool,
                              sr[fl[i]]).shared,
                  fl, i + 1, hi, ck, sr)

RECURSIVE RunPass2(_, _, _, _, _, _)
RunPass2(sh, res, fl, i, ck, sr) ==
    IF i > Len(fl) THEN res
    ELSE LET r == AnalyzeFile(fl[i], ck, sh, Root, Pool, sr[fl[i]])
         IN  RunPass2(r.shared, Collect(res, fl[i], r.violations), fl, i + 1,
                      ck, sr)

SetupShared(fl) ==
    [SharedInit EXCEPT !.module_to_file = SetupModuleToFile(fl, Root)]

AnalyzeFiles(fl, ck, sr) ==
    RunPass2(RunPass1(SetupShared(fl), fl, 1, Len(fl), ck, sr), <<>>, fl, 1,
             ck, sr)

\* what the k-th file of fl contributes in pass 1
Pass1Contribution(fl, k, ck, sr) ==
    LET before == RunPass1(SetupShared(fl), fl, 1, k - 1, ck, sr)
        r == AnalyzeFile(fl[k], FirstPassChecks(ck), before, Root, Pool, sr[fl[k]])
    IN  [imports |-> DGet(r.shared.imports, fl[k]), functions |-> r.functions,
         edges |-> r.ext]

InputSet == SeqToSet(files)

Orderings(fl) ==
    {q \in FileLists : Len(q) = Len(fl) /\ SeqToSet(q) = SeqToSet(fl)}

\* the violations a result dict reports for a file, as a set
ViolationSet(res, f) == IF DHas(res, f) THEN SeqToSet(DGet(res, f)) ELSE {}

\* every statement of a source text, the bodies of its defs included
AllStatements(stmts) ==
    SeqToSet(stmts) \cup
    UNION {SeqToSet(stmts[i].body) : i \in {j \in 1..Len(stmts) : stmts[j].k = "def"}}

ShouldBeDocumented(fn) == [kind |-> "should_be_documented", name |-> fn]

ConsiderPrivate(fn) == [kind |-> "consider_private", name |-> fn]

Messages(vs) == {vs[i].msg : i \in 1..Len(vs)}

(***************************************************************************)
(* Properties of the two-pass protocol                                     *)
(***************************************************************************)
\* C1: pass 1 analyses every input file before pass 2 analyses any: while
\* some file has had its pass-2 analysis, every input file has had exactly
\* one pass-1 analysis; no file is ever analysed twice in a pass, and on
\* return every input file has been analysed once in each pass.
C1_PassOrder ==
    /\ \A f \in Pool : n1[f] <= 1 /\ n2[f] <= 1
    /\ \A f \in Pool \ InputSet : n1[f] = 0 /\ n2[f] = 0
    /\ (\E f \in Pool : n2[f] > 0) => \A g \in InputSet : n1[g] = 1
    /\ pc = "done" => \A g \in InputSet : n1[g] = 1 /\ n2[g] = 1

C1_Witness ==
    /\ pc = "done"
    /\ Len(files) = 3
    /\ \A g \in InputSet : n1[g] = 1 /\ n2[g] = 1

\* C2: the returned dict has exactly the input files whose pass-2 call
\* returned a non-empty list as keys, each mapped to that list; what the
\* pass-1 calls returned is not in it.
C2_ResultIsPass2Output ==
    pc = "done" =>
        /\ DKeys(result) = {f \in InputSet : p2viol[f] # <<>>}
        /\ \A i \in 1..Len(result) :
               /\ result[i].v # <<>>
               /\ result[i].v = p2viol[result[i].k]
               /\ \A j \in 1..Len(result) : result[j].k = result[i].k => i = j

C2_Witness ==
    /\ pc = "done"
    /\ result # <<>>
    /\ \E f \in InputSet : p1viol[f] # <<>> /\ p2viol[f] = <<>> /\ ~DHas(result, f)

\* C3 (as claimed): with function_visibility enabled, an undocumented public
\* function of input file B that input file A refers to through its import of
\* B, by a call or by a bare value, is reported as "should be documented" and
\* not as "consider making it private".
C3_ReferencedIsDocumentedViolation ==
    (pc = "done" /\ checks.function_visibility /\ ~raisedEver) =>
        \A a \in InputSet, b \in InputSet :
            \A s \in AllStatements(src[a]) :
                (/\ a # b
                 /\ s.k \in {"qcall", "ref"}
                 /\ DHas(DGet(shared.imports, a), s.obj)
                 /\ ResolveTarget(a, DGet(DGet(shared.imports, a), s.obj).module_path,
                                  shared.module_to_file) = b
                 /\ DHas(shared.all_functions, b)
                 /\ DHas(DGet(shared.all_functions, b), s.fn)
                 /\ ~DGet(DGet(shared.all_functions, b), s.fn).doc
                 /\ ~StartsWithUnderscore(s.fn)
                 /\ ~StartsWithTest(s.fn))
                => /\ ShouldBeDocumented(s.fn) \in Messages(p2viol[b])
                   /\ ConsiderPrivate(s.fn) \notin Messages(p2viol[b])

\* C4 (as claimed): the result does not depend on the order of the input
\* list: every ordering of the same files gives every file the same set of
\* violations.
C4_OrderIndependent ==
    pc = "done" =>
        \A q \in Orderings(files) : \A f \in InputSet :
            ViolationSet(AnalyzeFiles(q, checks, src), f) = ViolationSet(result, f)

\* C5 (as claimed): what a file contributes in pass 1 (import bindings,
\* signature table, recorded edges) is the same whichever files were
\* analysed before it in pass 1.
C5_Pass1Independent ==
    (pc \in {"pass2", "return", "done"} /\ ~raisedEver) =>
        \A q \in Orderings(files) : \A k \in 1..Len(q) :
            Pass1Contribution(q, k, checks, src) = contrib1[q[k]]

\* C6 (as claimed): a pass-2 analysis leaves the shared tables unchanged.
C6_Pass2ReadsOnly ==
    [][pc = "pass2" => shared' = shared]_vars

\* C7 (as claimed): no reported violation says "has not been analyzed" about
\* a qualified call whose import resolves to one of the input files.
C7_NoNotAnalyzedInOutput ==
    (pc = "done" /\ ~raisedEver) =>
        \A i \in 1..Len(result) : \A j \in 1..Len(result[i].v) :
            LET f == result[i].k
                m == result[i].v[j].msg
            IN  m.kind = "not_analyzed" =>
                    ResolveTarget(f, DGet(DGet(shared.imports, f), m.module).module_path,
                                  shared.module_to_file) \notin InputSet

\* C8: visibility analysis reports at most one violation per function: none
\* for a name starting with "_" or "test_", none for a documented function,
\* "should be documented" for an undocumented public function with an edge
\* (file, name) in the reference-edge set, "consider making it private" for
\* one without.
C8_VisibilityDecision ==
    (last.pass = 2 /\ checks.function_visibility /\ ~last.raised) =>
        /\ visCall.file = last.file
        /\ \A i \in 1..Len(visCall.functions) :
               LET f == visCall.functions[i].v
                   mine == {j \in 1..Len(visCall.out) :
                               visCall.out[j].msg.name = f.name}
                   used == <<last.file, f.name>> \in shared.external_calls
               IN  /\ Cardinality(mine) <= 1
                   /\ (StartsWithUnderscore(f.name) \/ StartsWithTest(f.name)
                       \/ f.doc) => mine = {}
                   /\ (~StartsWithUnderscore(f.name) /\ ~StartsWithTest(f.name)
                       /\ ~f.doc) =>
                          \E j \in mine :
                              visCall.out[j] =
                                  Viol(f.lineno,
                                       IF used THEN ShouldBeDocumented(f.name)
                                       ELSE ConsiderPrivate(f.name))
        /\ \A j \in 1..Len(visCall.out) :
               DHas(visCall.functions, visCall.out[j].msg.name)

C8_Witness ==
    /\ last.pass = 2 /\ checks.function_visibility /\ ~last.raised
    /\ last.file = FileB
    /\ DHas(visCall.functions, "test_f")
    /\ <<FileB, "test_f">> \in shared.external_calls
    /\ <<FileB, "_f">> \in shared.external_calls
    /\ visCall.out = <<>>

\* C9: no edge is recorded while the file it points to is being analysed:
\* every edge of the reference-edge set was recorded from another file.
C9_NoSelfEdge ==
    /\ \A r \in recorded : r[1] # r[2]
    /\ shared.external_calls = {<<r[2], r[3]>> : r \in recorded}

C9_Witness ==
    /\ last.pass = 2 /\ last.file = FileA /\ ~last.raised
    /\ src[FileA] = SelfRefSource
    /\ checks.calls
    /\ DHas(last.before.all_functions, FileA)
    /\ recorded # {}

(***************************************************************************)
(* _is_import_module_var as a process: one step per activation             *)
(***************************************************************************)
MaxNames == 3

NameOf == <<"a", "b", "c", "d", "e", "f">>

AliasNames == {NameOf[i] : i \in 1..MaxNames}

NoAlias == "-"

\* self.aliases as a dict, from the map name -> source (or NoAlias)
RECURSIVE AliasDict(_, _)
AliasDict(g, i) ==
    IF i > MaxNames THEN <<>>
    ELSE (IF g[NameOf[i]] # NoAlias
          THEN <<[k |-> NameOf[i], v |-> g[NameOf[i]]]>> ELSE <<>>)
         \o AliasDict(g, i + 1)

\* analyze_files not running
AnalysisIdle ==
    /\ files = <<>>
    /\ checks = [import_naming |-> FALSE, calls |-> FALSE,
                 function_visibility |-> FALSE]
    /\ src = [f \in Pool |-> <<>>]
    /\ pc = "idle"
    /\ idx = 0
    /\ shared = SharedInit
    /\ result = <<>>
    /\ n1 = [f \in Pool |-> 0]
    /\ n2 = [f \in Pool |-> 0]
    /\ contrib1 = [f \in Pool |-> NoContribution]
    /\ p1viol = [f \in Pool |-> <<>>]
    /\ p2viol = [f \in Pool |-> <<>>]
    /\ recorded = {}
    /\ visCall = NoVisCall
    /\ last = NoLast
    /\ raisedEver = FALSE

InitAlias ==
    /\ imv \in {[vars |-> v, aliases |-> AliasDict(g, 1), start |-> n, var |-> n,
                 visited |-> {}, pc |-> "run", result |-> FALSE] :
                   v \in SUBSET AliasNames,
                   g \in [AliasNames -> AliasNames \cup {NoAlias}],
                   n \in AliasNames}
    /\ AnalysisIdle
    /\ ivp = IvpIdle
    /\ cc = CcIdle
    /\ OthersIdle

ImvNext(r) ==
    [imv EXCEPT !.var = r.var, !.visited = r.visited, !.result = r.result,
                !.pc = IF r.done THEN "done" ELSE "run"]

\* the activation recurses on the alias source
ImvRecurse ==
    /\ imv.pc = "run"
    /\ LET r == ImvStep(imv.vars, imv.aliases, imv.var, imv.visited)
       IN  ~r.done /\ imv' = ImvNext(r)
    /\ UNCHANGED <<files, checks, src, pc, idx, shared, result, n1, n2,
                   contrib1, p1viol, p2viol, recorded, visCall, last, raisedEver,
                   ivp, cc,
                   wk, so, af>>

\* the activation returns, and with it every enclosing one
ImvReturn ==
    /\ imv.pc = "run"
    /\ LET r == ImvStep(imv.vars, imv.aliases, imv.var, imv.visited)
       IN  r.done /\ imv' = ImvNext(r)
    /\ UNCHANGED <<files, checks, src, pc, idx, shared, result, n1, n2,
                   contrib1, p1viol, p2viol, recorded, visCall, last, raisedEver,
                   ivp, cc,
                   wk, so, af>>

NextAlias == ImvRecurse \/ ImvReturn

\* a call that has started runs to its end: the interpreter keeps executing
SpecAlias == InitAlias /\ [][NextAlias]_vars /\ WF_vars(NextAlias)

\* the k-th name of the alias chain from a name, NoAlias past a dead end
RECURSIVE ChainAt(_, _, _)
ChainAt(aliases, start, k) ==
    IF k = 0 THEN start
    ELSE LET prev == ChainAt(aliases, start, k - 1)
         IN  IF prev # NoAlias /\ DHas(aliases, prev) THEN DGet(aliases, prev)
             ELSE NoAlias

\* the chain from start never ends and never meets an import binding
CycleWithoutImport(vs, aliases, start) ==
    \A k \in 0..MaxNames :
        ChainAt(aliases, start, k) # NoAlias /\ ChainAt(aliases, start, k) \notin vs

\* C10: alias-chain resolution terminates for every alias graph and start
\* name, and answers false when the chain from the start name runs into a
\* cycle without meeting an import binding.
C10_AliasResolutionTerminates ==
    /\ <>(imv.pc = "done")
    /\ [](imv.pc = "done" /\ CycleWithoutImport(imv.vars, imv.aliases, imv.start)
            => imv.result = FALSE)

C10_Witness ==
    /\ imv.pc = "done"
    /\ CycleWithoutImport(imv.vars, imv.aliases, imv.start)
    /\ Cardinality(imv.visited) = 3
    /\ imv.result = FALSE

(***************************************************************************)
(* The import visitor walking one module                                   *)
(***************************************************************************)
MaxStmts == 3

\* the statements the walked modules are made of
StmtPool ==
    { Import("x", RelB),
      Import("_x", RelB),
      Alias("y", "x"),
      Alias("y", "_x"),
      Alias("_r", "_x"),
      Alias("y", "q"),
      Alias("z", "y"),
      BadImport("x", "missing"),
      BadImport("y", "nonstring"),
      TupleAssign(<<"x", "_r">>, <<ImportValue(RelB), ImportValue(RelA)>>),
      TupleAssign(<<"y", "z">>, <<BadImportValue("missing"), NameValue("_x")>>),
      TupleAssign(<<"_m", "z", "w">>, <<BadImportValue("nonstring"), ConstValue>>),
      TupleAssign(<<"s", "t">>, <<ImportValue(EmptyPath), NameValue("s")>>),
      Def("g", FALSE, Sig0,
          <<Import("x", RelB), Alias("y", "x"),
            TupleAssign(<<"z", "w">>, <<ImportValue(RelB), NameValue("x")>>)>>),
      Def("h", FALSE, Sig0,
          <<BadImport("x", "missing"),
            TupleAssign(<<"y">>, <<BadImportValue("missing")>>)>>),
      Def("k", FALSE, Sig0, <<BadCompExpr, Import("x", RelB)>>),
      BadCompAssign("v"),
      BadCompExpr }

Modules == UNION {[1..n -> StmtPool] : n \in 1..MaxStmts}

InitImport ==
    /\ ivp \in {[stmts |-> m, i |-> 1, iv |-> ImportVisitorInit,
                 before |-> ImportVisitorInit, info |-> <<>>, pc |-> "visit",
                 fs |-> Pool, checkExists |-> TRUE] :
                   m \in Modules}
    /\ AnalysisIdle
    /\ imv = ImvIdle
    /\ cc = CcIdle
    /\ OthersIdle

\* visit_Module: the next top-level statement of the module; the walk ends
\* when the statement lets an exception through
IvpVisit ==
    /\ ivp.pc = "visit"
    /\ ivp.i <= Len(ivp.stmts)
    /\ \E r \in {ImportVisitTop(ivp.iv, FileA, Root, ivp.fs, ivp.checkExists,
                                ivp.stmts[ivp.i], ivp.i)} :
           ivp' = [ivp EXCEPT !.before = ivp.iv,
                              !.iv = r,
                              !.i = @ + 1,
                              !.pc = IF r.raised THEN "raised" ELSE @]
    /\ UNCHANGED <<files, checks, src, pc, idx, shared, result, n1, n2,
                   contrib1, p1viol, p2viol, recorded, visCall, last, raisedEver,
                   imv, cc,
                   wk, so, af>>

\* the walk is over: get_import_info
IvpFinish ==
    /\ ivp.pc = "visit"
    /\ ivp.i > Len(ivp.stmts)
    /\ ivp' = [ivp EXCEPT !.info = GetImportInfo(ivp.iv.calls), !.pc = "done"]
    /\ UNCHANGED <<files, checks, src, pc, idx, shared, result, n1, n2,
                   contrib1, p1viol, p2viol, recorded, visCall, last, raisedEver,
                   imv, cc,
                   wk, so, af>>

NextImport == IvpVisit \/ IvpFinish

SpecImport == InitImport /\ [][NextImport]_vars

\* the statement visited last, and the violations its visit appended
LastStmt == ivp.stmts[ivp.i - 1]

Delta ==
    SubSeq(ivp.iv.violations, Len(ivp.before.violations) + 1,
           Len(ivp.iv.violations))

Visited == ivp.pc = "visit" /\ ivp.i > 1

NamingKinds == {"import_naming", "import_alias_naming"}

\* the number of violations of the given kinds a list holds about a name
NamingCount(vs, var, kinds) ==
    Cardinality({j \in 1..Len(vs) : vs[j].msg.kind \in kinds /\ vs[j].msg.var = var})

Min(a, b) == IF a < b THEN a ELSE b

\* the (target, value) pairs a simple statement binds
Bindings(st) ==
    IF st.k = "import" THEN <<[t |-> st.var, v |-> ImportValue(st.path)]>>
    ELSE IF st.k = "alias" THEN <<[t |-> st.var, v |-> NameValue(st.src)]>>
    ELSE IF st.k = "badimport" THEN <<[t |-> st.var, v |-> BadImportValue(st.arg)]>>
    ELSE IF st.k = "tuple"
    THEN [i \in 1..Min(Len(st.targets), Len(st.values)) |->
             [t |-> st.targets[i], v |-> st.values[i]]]
    ELSE <<>>

RECURSIVE BodyBindings(_)
BodyBindings(body) ==
    IF body = <<>> THEN <<>> ELSE Bindings(Head(body)) \o BodyBindings(Tail(body))

\* C11 (as claimed): a global assignment of a well-formed import call yields
\* exactly one naming violation about the target when its name does not start
\* with "_" and none when it does; a global assignment of a variable that
\* resolves to an import yields exactly one violation, the alias one, when
\* the target does not start with "_", and none when it does.  The visitor
\* decides "global" by scope_level == 0, and an earlier statement whose list
\* comprehension raised inside visit_FunctionDef or visit_Assign leaves
\* scope_level raised, so a later global assignment gets no violation.
C11_GlobalNamingVerdict ==
    (Visited /\ LastStmt.k # "def") =>
        \A j \in 1..Len(Bindings(LastStmt)) :
            LET b == Bindings(LastStmt)[j]
                n == NamingCount(Delta, b.t, NamingKinds)
            IN  /\ b.v.e = "import" =>
                       IF StartsWithUnderscore(b.t) THEN n = 0
                       ELSE n = 1 /\ NamingCount(Delta, b.t, {"import_naming"}) = 1
                /\ (/\ b.v.e = "name"
                    /\ IsImportModuleVar(ivp.before.vars,
                                         DSet(ivp.before.aliases, b.t, b.v.src),
                                         b.v.src)) =>
                       IF StartsWithUnderscore(b.t) THEN n = 0
                       ELSE /\ n = 1
                            /\ NamingCount(Delta, b.t, {"import_alias_naming"}) = 1

\* C12: the visit of a function definition appends no naming violation,
\* whatever its body binds to import calls or to aliases of imports.
C12_FunctionLocalExempt ==
    (Visited /\ LastStmt.k = "def") =>
        \A j \in 1..Len(Delta) : Delta[j].msg.kind \notin NamingKinds

C12_Witness ==
    /\ Visited
    /\ LastStmt.k = "def" /\ LastStmt.name = "g"
    /\ {"x", "z"} \subseteq ivp.iv.vars \ ivp.before.vars
    /\ DHas(ivp.iv.aliases, "y") /\ DHas(ivp.iv.aliases, "w")
    /\ IsImportModuleVar(ivp.iv.vars, ivp.iv.aliases, "w")
    /\ Delta = <<>>

\* C13 (as claimed): a target bound to an import call without a string first
\* argument, in a plain or in a tuple assignment, gets no import binding,
\* does not become an import variable and gets no violation.
C13_MalformedImportInvisible ==
    Visited =>
        LET bs == IF LastStmt.k = "def" THEN BodyBindings(LastStmt.body)
                  ELSE Bindings(LastStmt)
        IN  \A j \in 1..Len(bs) :
                bs[j].v.e = "badimport" =>
                    /\ DHas(ivp.iv.calls, bs[j].t) => DHas(ivp.before.calls, bs[j].t)
                    /\ bs[j].t \in ivp.iv.vars => bs[j].t \in ivp.before.vars
                    /\ \A k \in 1..Len(Delta) :
                           Delta[k].msg.kind \in NamingKinds =>
                               Delta[k].msg.var # bs[j].t

(***************************************************************************)
(* Properties of the analysis of one file inside analyze_files             *)
(***************************************************************************)
\* what the last analyze_file call returned
LastViolations ==
    IF last.pass = 1 THEN p1viol[last.file] ELSE p2viol[last.file]

\* C14: an analyze_file call in which an exception was raised returns
\* exactly one violation, at line 0, the error of that file; analyze_files
\* still analyses every input file once in each pass and reports what the
\* pass-2 call of each returned.
C14_ExceptionIsolated ==
    /\ (last.pass # 0 /\ last.raised) =>
           /\ Len(LastViolations) = 1
           /\ LastViolations[1].line = 0
           /\ LastViolations[1].msg = [kind |-> "error", file |-> last.file]
    /\ (pc = "done" /\ raisedEver) =>
           \A f \in InputSet :
               /\ n1[f] = 1 /\ n2[f] = 1
               /\ p2viol[f] # <<>> => DHas(result, f) /\ DGet(result, f) = p2viol[f]

C14_Witness ==
    /\ pc = "done"
    /\ \E f \in InputSet, g \in InputSet :
           /\ f # g
           /\ files[1] = f
           /\ p2viol[f] = ErrorViolation(f)
           /\ DHas(result, f)
           /\ DHas(result, g)
           /\ DGet(result, g)[1].line # 0

(***************************************************************************)
(* One call checked against one signature: _check_call_compatibility in a  *)
(* fresh visitor of file a, the callee defined in file b, and what          *)
(* analyze_file returns for it                                              *)
(***************************************************************************)
\* most positional parameters of a callee, most positional arguments and
\* most keyword arguments of a call
MaxParams == 3

MaxPos == 4

MaxKw == 2

ParamNames == <<"a", "b", "c", "d">>

KwNames == {"a", "b", "c", "k", "z"}

\* the keyword-only parameters of the callees: none, k, k = 1, k and m = 1
KwonlyShapes ==
    { [kwonly |-> <<>>, kwdef |-> {}],
      [kwonly |-> <<"k">>, kwdef |-> {}],
      [kwonly |-> <<"k">>, kwdef |-> {"k"}],
      [kwonly |-> <<"k", "m">>, kwdef |-> {"m"}] }

CompatSigs ==
    { WithKwDefaults(Sig(SubSeq(ParamNames, 1, n), nd, va, ko.kwonly, kw),
                     ko.kwdef) :
        n \in 0..Min(MaxParams, Len(ParamNames)), nd \in 0..MaxParams,
        va \in {NoParam, "rest"}, ko \in KwonlyShapes,
        kw \in {NoParam, "extra"} }

\* keyword arguments of a call: distinct names, in any order
KwLists ==
    UNION { {q \in [1..n -> KwNames] : \A i, j \in 1..n : q[i] = q[j] => i = j} :
              n \in 0..MaxKw }

CompatCalls ==
    { QCall("_b", "f", np, kws) : np \in 0..MaxPos, kws \in KwLists }

InitCompat ==
    /\ cc \in { [sig |-> FunctionSignature(Def("f", TRUE, sg, <<>>), FileB, 1),
                 call |-> c, st |-> FunctionVisitorInit({}),
                 returned |-> <<>>, pc |-> "call"] :
                  sg \in {x \in CompatSigs : x.ndef <= Len(x.args)},
                  c \in CompatCalls }
    /\ AnalysisIdle
    /\ imv = ImvIdle
    /\ ivp = IvpIdle
    /\ OthersIdle

\* _check_call_compatibility(call_node, signature, context_file)
CcCheck ==
    /\ cc.pc = "call"
    /\ cc' = [cc EXCEPT
                 !.st = ApplyCompat(cc.st,
                            CheckCallCompatibility(cc.call, cc.sig, FileB,
                                                   FileA, 2)),
                 !.pc = "checked"]
    /\ UNCHANGED <<files, checks, src, pc, idx, shared, result, n1, n2,
                   contrib1, p1viol, p2viol, recorded, visCall, last, raisedEver,
                   imv, ivp, wk, so, af>>

\* analyze_file, lines 135-146: the violations of the visitor are returned,
\* or the error of the except clause
CcReturn ==
    /\ cc.pc = "checked"
    /\ cc' = [cc EXCEPT
                 !.returned = IF cc.st.raised THEN ErrorViolation(FileA)
                              ELSE cc.st.violations,
                 !.pc = "returned"]
    /\ UNCHANGED <<files, checks, src, pc, idx, shared, result, n1, n2,
                   contrib1, p1viol, p2viol, recorded, visCall, last, raisedEver,
                   imv, ivp, wk, so, af>>

NextCompat == CcCheck \/ CcReturn

SpecCompat == InitCompat /\ [][NextCompat]_vars

CcKindCount(kind) ==
    Cardinality({i \in 1..Len(cc.returned) : cc.returned[i].msg.kind = kind})

\* the required positional parameters of the callee
CcRequired == SubSeq(cc.sig.args, 1, Len(cc.sig.args) - cc.sig.ndef)

\* those the call supplies neither positionally nor by keyword, in order
RECURSIVE Unsupplied(_, _, _, _)
Unsupplied(req, i, npos, kws) ==
    IF i > Len(req) THEN <<>>
    ELSE (IF i > npos /\ ~InSeq(req[i], kws) THEN <<req[i]>> ELSE <<>>)
         \o Unsupplied(req, i + 1, npos, kws)

CcProvidedRequired ==
    cc.call.npos
    + Cardinality({i \in 1..Len(cc.call.kws) : InSeq(cc.call.kws[i], CcRequired)})

\* C15: a call that provides fewer of the required positional parameters
\* than the callee requires (positional arguments plus keyword arguments
\* naming required parameters) gets exactly one 'Missing required
\* positional argument' violation, and it names every required parameter
\* the call supplies neither positionally nor by keyword.
C15_MissingPositionalNamesAll ==
    (cc.pc = "returned" /\ CcProvidedRequired < Len(CcRequired)) =>
        /\ CcKindCount("missing_positional") = 1
        /\ \A i \in 1..Len(cc.returned) :
               cc.returned[i].msg.kind = "missing_positional" =>
                   cc.returned[i].msg.args
                       = Unsupplied(CcRequired, 1, cc.call.npos, cc.call.kws)

\* C16: a call gets exactly one 'Too many positional arguments' violation
\* if and only if its positional argument count exceeds the callee's
\* positional parameter count, the callee has no variadic parameter and the
\* excess is greater than the number of keyword-only parameters; otherwise
\* it gets none.
C16_TooManyPositionalIff ==
    cc.pc = "returned" =>
        CcKindCount("too_many_positional")
            = IF /\ cc.call.npos > Len(cc.sig.args)
                 /\ cc.sig.vararg = NoParam
                 /\ cc.call.npos - Len(cc.sig.args) > Len(cc.sig.kwonly)
              THEN 1 ELSE 0

CcMissingKwonlyCount(arg) ==
    Cardinality({i \in 1..Len(cc.returned) :
                    /\ cc.returned[i].msg.kind = "missing_kwonly"
                    /\ cc.returned[i].msg.arg = arg})

\* C17: in a call to a callee with keyword-only parameters, each
\* keyword-only parameter that has no default and is not supplied by a
\* keyword argument of that name gets a 'Missing required keyword-only
\* argument' violation; one that has a default or is supplied gets none.
C17_MissingKeywordOnly ==
    (cc.pc = "returned" /\ Len(cc.sig.kwonly) > 0) =>
        \A i \in 1..Len(cc.sig.kwonly) :
            CcMissingKwonlyCount(cc.sig.kwonly[i])
                = IF /\ DGet(cc.sig.kwdefaults, cc.sig.kwonly[i]) = "None"
                     /\ ~InSeq(cc.sig.kwonly[i], cc.call.kws)
                  THEN 1 ELSE 0

CcInvalidKeywordCount(arg) ==
    Cardinality({i \in 1..Len(cc.returned) :
                    /\ cc.returned[i].msg.kind = "invalid_keyword"
                    /\ cc.returned[i].msg.arg = arg})

\* C18: a keyword argument of a call gets an 'Invalid keyword argument'
\* violation if and only if its name is neither a positional nor a
\* keyword-only parameter name of the callee and the callee has no
\* catch-all keyword parameter.
C18_InvalidKeywordIff ==
    cc.pc = "returned" =>
        \A j \in 1..Len(cc.call.kws) :
            CcInvalidKeywordCount(cc.call.kws[j])
                = IF /\ ~InSeq(cc.call.kws[j], cc.sig.args)
                     /\ ~InSeq(cc.call.kws[j], cc.sig.kwonly)
                     /\ cc.sig.kwarg = NoParam
                  THEN 1 ELSE 0

(***************************************************************************)
(* Properties of the call sites of one analysis                            *)
(***************************************************************************)
\* self.imports of the function visitor of the last analyze_file call
LastImports ==
    IF DHas(shared.imports, last.file) THEN DGet(shared.imports, last.file)
    ELSE <<>>

\* the file the import variable obj stood for in the last analysis
LastTarget(obj) ==
    ResolveTarget(last.file, DGet(LastImports, obj).module_path,
                  shared.module_to_file)

\* a qualified call on a recognised import variable whose target file has
\* a signature table, and the table lacks the function
CallsMissingFunction(site) ==
    /\ site.call.k = "qcall"
    /\ site.call.obj \notin BuiltinModules
    /\ DHas(LastImports, site.call.obj)
    /\ DGet(LastImports, site.call.obj).package_id = NoPath
    /\ LastTarget(site.call.obj) # NoPath
    /\ DHas(last.before.all_functions, LastTarget(site.call.obj))
    /\ ~DHas(DGet(last.before.all_functions, LastTarget(site.call.obj)),
             site.call.fn)

NonExistentViolation(site) ==
    Viol(site.line, [kind |-> "non_existent_function",
                     module |-> site.call.obj, fn |-> site.call.fn])

C20_NestedCallsChecked ==
    last.pass # 0 =>
        \A i \in 1..Len(last.sites) :
            \A j \in 1..Len(last.sites[i].call.nested) :
                last.sites[i].call.nested[j].via # "ref" =>
                \E k \in (i + 1)..Len(last.sites) :
                    /\ last.sites[k].line = last.sites[i].line
                    /\ last.sites[k].call = last.sites[i].call.nested[j].call

(***************************************************************************)
(* The import visitor on one import_module call: every kind of module      *)
(* path, any set of files on disk, check_file_exists on and off            *)
(***************************************************************************)
SimpleB == Path(<<"b">>, TRUE)

AbsMissing == Path(<<"", "m">>, TRUE)

UpB == Path(<<"..", "ws", "b">>, TRUE)

ExternalB == Path(<<"github.com", "b">>, TRUE)

\* "./b.star/."
RelBDot == Path(<<".", "b.star", ".">>, FALSE)

ImportPaths ==
    {ExternalX, ExternalB, AbsB, AbsMissing, RelB, RelA, RelMissing, UpB,
     SimpleB, RelBDot, EmptyPath}

\* the call at global level, and the call in a function body
ImportModules ==
    { <<Import(v, mp)>> : v \in {"x", "_x"}, mp \in ImportPaths }
    \cup { <<Def("g", TRUE, Sig0, <<Import(v, mp)>>)>> :
              v \in {"x", "_x"}, mp \in ImportPaths }

InitExists ==
    /\ ivp \in {[stmts |-> m, i |-> 1, iv |-> ImportVisitorInit,
                 before |-> ImportVisitorInit, info |-> <<>>, pc |-> "visit",
                 fs |-> fs, checkExists |-> ce] :
                   m \in ImportModules, fs \in SUBSET Pool, ce \in BOOLEAN}
    /\ AnalysisIdle
    /\ imv = ImvIdle
    /\ cc = CcIdle
    /\ OthersIdle

SpecExists == InitExists /\ [][NextImport]_vars

DoesNotExistCount(vs, mp) ==
    Cardinality({i \in 1..Len(vs) :
                    vs[i].msg.kind = "does_not_exist" /\ vs[i].msg.path = mp})

Classifications(im) ==
    (IF im.is_external THEN 1 ELSE 0) + (IF im.is_absolute THEN 1 ELSE 0)
    + (IF im.is_relative THEN 1 ELSE 0)

\* C23: every import binding carries at most one of the classifications
\* external, absolute and relative; an external binding has no resolved
\* path and its path gets no 'does not exist' violation; with
\* check_file_exists disabled no binding gets one.
C23_ImportClassification ==
    \A j \in 1..Len(ivp.iv.calls) :
        LET im == ivp.iv.calls[j].v IN
        /\ Classifications(im) <= 1
        /\ im.is_external =>
               /\ im.resolved_path = NoPath
               /\ DoesNotExistCount(ivp.iv.violations, im.module_path) = 0
        /\ ~ivp.checkExists =>
               DoesNotExistCount(ivp.iv.violations, im.module_path) = 0

C23_Witness ==
    /\ ivp.pc = "done"
    /\ ivp.checkExists
    /\ ivp.fs = {}
    /\ DHas(ivp.iv.calls, "_x")
    /\ DGet(ivp.iv.calls, "_x").is_external
    /\ DGet(ivp.iv.calls, "_x").module_path = ExternalX
    /\ ivp.iv.violations = <<>>

(***************************************************************************)
(* The global frame of the import visitor                                  *)
(***************************************************************************)
\* the module with the body of every function left out
WithoutBodies(stmts) ==
    [j \in 1..Len(stmts) |->
        IF stmts[j].k = "def" THEN [stmts[j] EXCEPT !.body = <<>>]
        ELSE stmts[j]]

\* the visitor after the statements at global level among the first n
GlobalFrame(stmts, n, fs, checkExists) ==
    ImportVisitFrom(ImportVisitorInit, FileA, Root, fs, checkExists,
                    WithoutBodies(SubSeq(stmts, 1, n)), 1)

\* C29: a global assignment b = a gets an alias naming violation only if
\* the bindings of a in the global frame lead to an import binding; what a
\* function body binds does not count.
C29_GlobalFrameDecides ==
    (Visited /\ LastStmt.k = "alias") =>
        \A g \in {GlobalFrame(ivp.stmts, ivp.i - 2, ivp.fs, ivp.checkExists)} :
            NamingCount(Delta, LastStmt.var, {"import_alias_naming"}) > 0 =>
                IsImportModuleVar(g.vars,
                                  DSet(g.aliases, LastStmt.var, LastStmt.src),
                                  LastStmt.src)

(***************************************************************************)
(* The three checks of analyze_files                                       *)
(***************************************************************************)
CheckNames == {"import_naming", "calls", "function_visibility"}

\* the kinds of violation each check reports
KindsOf(c) ==
    IF c = "import_naming"
    THEN {"import_naming", "import_alias_naming", "does_not_exist"}
    ELSE IF c = "calls"
    THEN {"could_not_resolve", "not_analyzed", "non_existent_function",
          "invalid_object", "too_many_positional", "missing_positional",
          "invalid_keyword", "missing_kwonly"}
    ELSE {"should_be_documented", "consider_private"}

RECURSIVE OfKinds(_, _)
OfKinds(vs, kinds) ==
    IF vs = <<>> THEN <<>>
    ELSE (IF Head(vs).msg.kind \in kinds THEN <<Head(vs)>> ELSE <<>>)
         \o OfKinds(Tail(vs), kinds)

\* per file, the violations of check c in the dict res
OfClass(res, c) ==
    [f \in Pool |-> IF DHas(res, f) THEN OfKinds(DGet(res, f), KindsOf(c))
                    ELSE <<>>]

\* C24: the violations of each class that analyze_files reports depend only
\* on whether that class's own check is enabled: a disabled check
\* contributes none, and switching another check on or off leaves the
\* violations of an enabled check as they are.
C24_ChecksIndependent ==
    pc = "done" =>
        \A c \in CheckNames :
            /\ ~checks[c] => \A f \in Pool : OfClass(result, c)[f] = <<>>
            /\ checks[c] =>
                   \A o \in CheckNames \ {c} :
                       OfClass(AnalyzeFiles(files, [checks EXCEPT ![o] = ~@],
                                            src), c)
                           = OfClass(result, c)

(***************************************************************************)
(* Bare-name calls to functions of the calling file                        *)
(***************************************************************************)
\* the line of the def of fn in the file, 0 when the file has none
RECURSIVE LocalDefLine(_, _, _)
LocalDefLine(stmts, fn, j) ==
    IF j = 0 THEN 0
    ELSE IF stmts[j].k = "def" /\ stmts[j].name = fn THEN j
    ELSE LocalDefLine(stmts, fn, j - 1)

LastSource == src[last.file]

\* what the check of the call of site against the def at line j of the
\* calling file appends
LocalCheck(site, j) ==
    CheckCallCompatibility(site.call,
                           FunctionSignature(LastSource[j], last.file, j),
                           NoPath, last.file, site.line)

\* C28: a bare-name call to a function defined in the calling file, also
\* one defined later in the file than the call, is checked against that
\* local signature and records no cross-file edge, whatever other analysed
\* files define.
C28_LocalCallChecksLocalSignature ==
    last.pass # 0 =>
        \A i \in 1..Len(last.sites) :
            \A j \in {LocalDefLine(LastSource, last.sites[i].call.fn,
                                   Len(LastSource))} :
                (last.sites[i].call.k = "bcall"
                 /\ last.sites[i].call.fn \notin BuiltinFunctions
                 /\ j # 0) =>
                    /\ last.sites[i].edges = {}
                    /\ last.sites[i].raised
                       \/ last.sites[i].added = LocalCheck(last.sites[i], j).violations

(***************************************************************************)
(* The reference edges                                                     *)
(***************************************************************************)
\* the edges the last analysed file added to the shared set
NewEdges == shared.external_calls \ last.before.external_calls

\* C30: every edge (targetFile, functionName) a file analysis adds to the
\* reference-edge set names a function that targetFile's signature table
\* held when the edge was recorded: no edge for an unresolved module, an
\* unanalysed file or a non-existent function.
C30_EdgesNameKnownFunctions ==
    last.pass # 0 =>
        \A e \in NewEdges :
            /\ DHas(last.before.all_functions, e[1])
            /\ DHas(DGet(last.before.all_functions, e[1]), e[2])

\* an analysis has just recorded an edge through an import binding
C30_Witness ==
    /\ last.pass # 0
    /\ \E e \in NewEdges :
           \E i \in 1..Len(last.sites) :
               /\ last.sites[i].call.k = "qcall"
               /\ e \in last.sites[i].edges

(***************************************************************************)
(* One visitor walking one tree                                            *)
(*                                                                         *)
(* The scope stack of BaseVisitor, UnifiedFunctionVisitor and              *)
(* UnifiedImportVisitor while visit(tree) runs, one visit step per action. *)
(* The control stack ctl holds the constructs being visited, each with     *)
(* the statements of its block still to visit and the depth of the scope   *)
(* stack before it was entered.  An exception unwinds ctl frame by frame   *)
(* until a handler catches it: no visit method has a finally clause.       *)
(***************************************************************************)
MaxNodes == 3

WAssign(v) == [k |-> "assign", name |-> v, body |-> <<>>, orelse |-> <<>>]
WCall(obj) == [k |-> "call", name |-> obj, body |-> <<>>, orelse |-> <<>>]
WDef(param, b) == [k |-> "def", name |-> param, body |-> b, orelse |-> <<>>]
WFor(target, b) == [k |-> "for", name |-> target, body |-> b, orelse |-> <<>>]
WIf(b, e) == [k |-> "if", name |-> "", body |-> b, orelse |-> e]
\* print([t.f() for t in ys])
WComp == [k |-> "comp", name |-> "t", body |-> <<WCall("t")>>, orelse |-> <<>>]
\* print([a for a, b in ys]): generator.target is a Tuple
WBadComp == [k |-> "badcomp", name |-> "", body |-> <<>>, orelse |-> <<>>]
\* x = [a for a, b in ys]
WAssignBad(v) == [k |-> "assignbad", name |-> v, body |-> <<>>, orelse |-> <<>>]

WLeaves ==
    {WAssign("x"), WAssignBad("x"), WCall("x"), WCall("t"), WCall("plan"),
     WComp, WBadComp}

\* the statements of exactly n nodes, the blocks of exactly n nodes
RECURSIVE WStmts(_), WBlocks(_)
WStmts(n) ==
    IF n = 1 THEN WLeaves
    ELSE {WDef("x", b) : b \in WBlocks(n - 1)}
         \cup {WFor("t", b) : b \in WBlocks(n - 1)}
         \cup UNION { {WIf(b, e) : b \in WBlocks(i), e \in WBlocks(n - 1 - i)} :
                        i \in 1..(n - 1) }

WBlocks(n) ==
    IF n = 0 THEN {<<>>}
    ELSE UNION { {<<s>> \o b : s \in WStmts(j), b \in WBlocks(n - j)} :
                   j \in 1..n }

WTrees == UNION {WBlocks(n) : n \in 1..MaxNodes}

\* BaseVisitor._enter_scope
EnterScope(v) ==
    [v EXCEPT !.scopes = Append(@, {}), !.assigns = Append(@, {})]

\* BaseVisitor._exit_scope popping the name sets only
ExitScopeNamesOnly(v) ==
    [v EXCEPT !.scopes = IF @ # <<>> THEN Front(@) ELSE @]

\* BaseVisitor._exit_scope
ExitScope(v) ==
    [v EXCEPT !.scopes = IF @ # <<>> THEN Front(@) ELSE @,
              !.assigns = IF @ # <<>> THEN Front(@) ELSE @]

\* _add_to_current_scope adding to the outermost frame
AddToOutermostScope(v, name) ==
    IF v.scopes # <<>>
    THEN [v EXCEPT !.scopes[1] = @ \cup {name}]
    ELSE v

\* BaseVisitor._add_to_current_scope
AddToCurrentScope(v, name) ==
    IF v.scopes # <<>>
    THEN [v EXCEPT !.scopes[Len(v.scopes)] = @ \cup {name}]
    ELSE v

\* BaseVisitor._add_variable_assignment, the keys of each frame
AddVariableAssignment(v, name) ==
    IF v.assigns # <<>>
    THEN [v EXCEPT !.assigns[Len(v.assigns)] = @ \cup {name}]
    ELSE v

\* BaseVisitor._is_in_scope
IsInScope(v, name) == \E i \in 1..Len(v.scopes) : name \in v.scopes[i]

\* _enter_scope and _exit_scope of the visitor of kind w.kind
WkEnterScope(w) ==
    IF w.kind = "import" THEN [EnterScope(w) EXCEPT !.level = @ + 1]
    ELSE EnterScope(w)

WkExitScope(w) ==
    IF w.kind = "import" THEN [ExitScope(w) EXCEPT !.level = @ - 1]
    ELSE ExitScope(w)

\* frames is the stack a walk keeps when every construct pops what it
\* pushed and an assignment binds its target into the current frame
PushFrame(w, names) == [w EXCEPT !.frames = Append(@, names)]
PopFrame(w) == [w EXCEPT !.frames = Front(@)]
BindFrame(w, name) == [w EXCEPT !.frames[Len(w.frames)] = @ \cup {name}]

WkTop == wk.ctl[Len(wk.ctl)]

WkAdvance(w) == [w EXCEPT !.ctl[Len(w.ctl)].rest = Tail(@)]

WkPush(w, c, rest, orelse) ==
    [w EXCEPT !.ctl = Append(@, [c |-> c, rest |-> rest, orelse |-> orelse,
                                 entry |-> Len(w.scopes)])]

WkLog(w, c, entry, raised) ==
    [w EXCEPT !.log = Append(@, [c |-> c, entry |-> entry,
                                 exit |-> Len(w.scopes), raised |-> raised])]

InitWalk ==
    /\ wk \in {[WkIdle EXCEPT !.kind = kd, !.tree = t, !.status = "new"] :
                 kd \in {"base", "function", "import"}, t \in WTrees}
              \cup {[WkIdle EXCEPT !.kind = "function", !.tree = t,
                                   !.imports = {"x"}, !.status = "new"] :
                      t \in WTrees}
    /\ AnalysisIdle
    /\ imv = ImvIdle
    /\ ivp = IvpIdle
    /\ cc = CcIdle
    /\ so = SoIdle
    /\ af = AfIdle

WkOthers ==
    UNCHANGED <<files, checks, src, pc, idx, shared, result, n1, n2, contrib1,
                p1viol, p2viol, recorded, visCall, last, raisedEver, imv, ivp,
                cc, so, af>>

\* visit_Module up to its first statement
WkModule ==
    /\ wk.status = "new"
    /\ wk' = LET w1 == WkPush([wk EXCEPT !.status = "walking"], "module",
                              wk.tree, <<>>)
             IN  IF wk.kind = "import" THEN [w1 EXCEPT !.level = 0]
                 ELSE PushFrame(EnterScope(w1), {})
    /\ WkOthers

\* visit_FunctionDef, visit_For, visit_If and visit_ListComp up to the
\* first statement of the block
WkEnter ==
    /\ wk.status = "walking"
    /\ WkTop.rest # <<>>
    /\ Head(WkTop.rest).k \in {"def", "for", "if", "comp"}
    /\ wk' = LET s == Head(WkTop.rest)
                 w1 == WkPush(WkAdvance(wk), s.k, s.body, s.orelse)
                 w2 == WkEnterScope(w1)
                 w3 == IF s.k \in {"for", "comp"}
                          \/ (s.k = "def" /\ wk.kind # "import")
                       THEN AddToCurrentScope(w2, s.name)
                       ELSE w2
             IN  PushFrame(w3, IF s.k = "if" THEN {} ELSE {s.name})
    /\ WkOthers

\* visit_Call of the function visitor on obj.f(); the visitor holds the
\* import of a local module for every name of imports, and its module_to_file
\* and all_functions are empty, so _check_imported_module_call finds no
\* target file for the call on an import
WkQualifiedCall(w, obj) ==
    LET bad == /\ obj \notin BuiltinModules
               /\ obj \notin w.imports
               /\ ~IsInScope(w, obj)
        unresolved == obj \notin BuiltinModules /\ obj \in w.imports
    IN  [w EXCEPT !.violations =
                      IF bad
                      THEN Append(@, [kind |-> "invalid_object", obj |-> obj])
                      ELSE IF unresolved
                      THEN Append(@, [kind |-> "could_not_resolve",
                                      obj |-> obj])
                      ELSE @,
                  !.sites = Append(@, [obj |-> obj, flagged |-> bad,
                                       frames |-> w.frames])]

\* visit_Assign of each visitor on x = 1
WkAssign(w, name) ==
    IF w.kind = "base"
    THEN AddVariableAssignment(AddToCurrentScope(w, name), name)
    ELSE IF w.kind = "import" THEN AddToCurrentScope(w, name)
    ELSE w

\* visit_ListComp on a comprehension whose target is a tuple: the frame is
\* pushed, then generator.target.id raises AttributeError
WkBadComp(w, caught) ==
    LET w1 == WkEnterScope(w)
        w2 == WkLog(w1, "comp", Len(w.scopes), TRUE)
    IN  IF caught THEN w2 ELSE [w2 EXCEPT !.status = "raising"]

\* visit of one simple statement
WkStmt ==
    /\ wk.status = "walking"
    /\ WkTop.rest # <<>>
    /\ Head(WkTop.rest).k \in {"assign", "call", "badcomp", "assignbad"}
    /\ wk' = LET s == Head(WkTop.rest)
                 w1 == WkAdvance(wk)
             IN  IF s.k = "assign" THEN BindFrame(WkAssign(w1, s.name), s.name)
                 ELSE IF s.k = "call"
                 THEN IF wk.kind = "function" THEN WkQualifiedCall(w1, s.name)
                      ELSE w1
                 ELSE IF s.k = "badcomp" THEN WkBadComp(w1, FALSE)
                 ELSE WkBadComp(w1, wk.kind = "import")
    /\ WkOthers

\* visit_If between the body and the else block
WkElse ==
    /\ wk.status = "walking"
    /\ WkTop.c = "if"
    /\ WkTop.rest = <<>>
    /\ wk' = LET w1 == WkEnterScope(WkExitScope(wk))
                 w2 == PushFrame(PopFrame(w1), {})
             IN  [w2 EXCEPT !.ctl[Len(wk.ctl)] =
                     [c |-> "else", rest |-> WkTop.orelse, orelse |-> <<>>,
                      entry |-> WkTop.entry]]
    /\ WkOthers

\* the end of visit_FunctionDef, visit_For, visit_If and visit_ListComp
WkLeave ==
    /\ wk.status = "walking"
    /\ WkTop.c \in {"def", "for", "else", "comp"}
    /\ WkTop.rest = <<>>
    /\ wk' = LET w1 == PopFrame(WkExitScope(wk))
                 w2 == [w1 EXCEPT !.ctl = Front(@)]
             IN  WkLog(w2, IF WkTop.c = "else" THEN "if" ELSE WkTop.c,
                       WkTop.entry, FALSE)
    /\ WkOthers

\* the end of visit_Module
WkFinish ==
    /\ wk.status = "walking"
    /\ WkTop.c = "module"
    /\ WkTop.rest = <<>>
    /\ wk' = LET w1 == IF wk.kind = "import" THEN wk
                       ELSE PopFrame(ExitScope(wk))
                 w2 == [w1 EXCEPT !.ctl = <<>>, !.status = "done"]
             IN  WkLog(w2, "module", WkTop.entry, FALSE)
    /\ WkOthers

\* an exception leaves the innermost visit method: the import visitor's
\* visit_FunctionDef and visit_If catch it, every other method lets it
\* through, and none pops the frame it pushed
WkUnwind ==
    /\ wk.status = "raising"
    /\ wk' = LET c == IF WkTop.c = "else" THEN "if" ELSE WkTop.c
                 caught == wk.kind = "import" /\ c \in {"def", "if"}
                 w1 == [wk EXCEPT !.ctl = Front(@),
                                  !.status = IF caught THEN "walking"
                                             ELSE IF Len(wk.ctl) = 1 THEN "raised"
                                             ELSE "raising"]
                 w2 == IF c = "module" /\ wk.kind = "import" THEN w1
                       ELSE PopFrame(w1)
             IN  WkLog(w2, c, WkTop.entry, TRUE)
    /\ WkOthers

NextWalk ==
    \/ WkModule
    \/ WkEnter
    \/ WkStmt
    \/ WkElse
    \/ WkLeave
    \/ WkFinish
    \/ WkUnwind

SpecWalk == InitWalk /\ [][NextWalk]_vars

\* the names bound in the frames of stack fr
BoundIn(fr) == UNION {fr[i] : i \in 1..Len(fr)}

\* C21: a qualified call obj.f(...) yields the violation "object is not
\* defined" exactly when obj is not a builtin module, is not bound to an
\* import and is not bound in an enclosing scope frame, where assignment
\* targets, function parameters, loop targets and comprehension targets
\* all count as bound.
C21_InvalidObjectIff ==
    wk.kind = "function" =>
        \A i \in 1..Len(wk.sites) :
            wk.sites[i].flagged <=>
                /\ wk.sites[i].obj \notin BuiltinModules
                /\ wk.sites[i].obj \notin wk.imports
                /\ wk.sites[i].obj \notin BoundIn(wk.sites[i].frames)

\* C25: walking a block-introducing construct leaves the scope stack at
\* the depth it had before the construct was entered, also when an error
\* is raised inside it.
C25_FramesPopped ==
    \A i \in 1..Len(wk.log) : wk.log[i].exit = wk.log[i].entry

\* C26: while a tree is walked the scope stack is non-empty, the stack of
\* name sets and the stack of value bindings have the same depth, and the
\* import visitor's scope level is that depth minus one and not negative.
C26_StackShape ==
    wk.status \in {"walking", "raising", "done", "raised"} =>
        /\ Len(wk.scopes) >= 1
        /\ Len(wk.scopes) = Len(wk.assigns)
        /\ wk.kind = "import" =>
               (wk.level = Len(wk.scopes) - 1 /\ wk.level >= 0)

\* the import visitor is two blocks deep, past a block it has left
C26_Witness ==
    /\ wk.kind = "import"
    /\ wk.status = "walking"
    /\ wk.level = 2
    /\ Len(wk.log) > 0

(***************************************************************************)
(* The scope operations of BaseVisitor                                     *)
(*                                                                         *)
(* A fresh BaseVisitor under any sequence of _enter_scope, _exit_scope and *)
(* _add_to_current_scope calls; hist is the sequence of calls made.        *)
(***************************************************************************)
MaxOps == 5

ScopeNames == {"x", "y"}

InitScope ==
    /\ so = [SoIdle EXCEPT !.pc = "run"]
    /\ AnalysisIdle
    /\ imv = ImvIdle
    /\ ivp = IvpIdle
    /\ cc = CcIdle
    /\ wk = WkIdle
    /\ af = AfIdle

SoOthers ==
    UNCHANGED <<files, checks, src, pc, idx, shared, result, n1, n2, contrib1,
                p1viol, p2viol, recorded, visCall, last, raisedEver, imv, ivp,
                cc, wk, af>>

SoRecord(v, op, name) ==
    [v EXCEPT !.hist = Append(@, [op |-> op, name |-> name])]

\* _enter_scope()
SoEnter ==
    /\ so.pc = "run"
    /\ Len(so.hist) < MaxOps
    /\ so' = SoRecord(EnterScope(so), "enter", "")
    /\ SoOthers

\* _exit_scope()
SoExit ==
    /\ so.pc = "run"
    /\ Len(so.hist) < MaxOps
    /\ so' = SoRecord(ExitScope(so), "exit", "")
    /\ SoOthers

\* _add_to_current_scope(name)
SoBind ==
    /\ so.pc = "run"
    /\ Len(so.hist) < MaxOps
    /\ \E name \in ScopeNames :
           so' = SoRecord(AddToCurrentScope(so, name), "bind", name)
    /\ SoOthers

NextScope ==
    \/ SoEnter
    \/ SoExit
    \/ SoBind

SpecScope == InitScope /\ [][NextScope]_vars

\* the number of frames after the first n calls of hist
RECURSIVE DepthAfter(_, _)
DepthAfter(hist, n) ==
    IF n = 0 THEN 1
    ELSE LET before == DepthAfter(hist, n - 1)
         IN  IF hist[n].op = "enter" THEN before + 1
             ELSE IF hist[n].op = "exit" /\ before > 0 THEN before - 1
             ELSE before

\* some call of hist bound name into a frame that no later call popped
StillBound(hist, name) ==
    \E i \in 1..Len(hist) :
        /\ hist[i].op = "bind"
        /\ hist[i].name = name
        /\ DepthAfter(hist, i) > 0
        /\ \A j \in i..Len(hist) : DepthAfter(hist, j) >= DepthAfter(hist, i)

\* C27: the scope operations are total: exit on an empty stack leaves it
\* empty, bind on an empty stack binds nothing, and after any sequence of
\* enter, exit and bind a name is in scope exactly when a frame still on
\* the stack contains it, so a name bound only in a popped frame is not.
C27_ScopeOperationsTotal ==
    so.pc = "run" =>
        /\ Len(so.scopes) = DepthAfter(so.hist, Len(so.hist))
        /\ Len(so.assigns) = Len(so.scopes)
        /\ \A name \in ScopeNames :
               IsInScope(so, name) <=> StillBound(so.hist, name)

\* the stack is empty after an exit on the empty stack, and a name that was
\* bound is no longer in scope
C27_Witness ==
    /\ so.pc = "run"
    /\ so.scopes = <<>>
    /\ \E i \in 2..Len(so.hist) :
           /\ so.hist[i].op = "exit"
           /\ DepthAfter(so.hist, i - 1) = 0
    /\ \E i \in 1..Len(so.hist) :
           /\ so.hist[i].op = "bind"
           /\ DepthAfter(so.hist, i) > 0
           /\ ~IsInScope(so, so.hist[i].name)
    /\ so.hist[Len(so.hist)].op = "bind"

(***************************************************************************)
(* analyze_file on a shared_data supplied by the caller                    *)
(*                                                                         *)
(* shared_data is a dict that may lack any of its four keys: af.present    *)
(* is the set of keys it has, af.shared the values under them (the empty   *)
(* value under a key it lacks).                                            *)
(***************************************************************************)
SharedKeys == {"imports", "module_to_file", "all_functions", "external_calls"}

AllChecks ==
    [import_naming |-> TRUE, calls |-> TRUE, function_visibility |-> TRUE]

\* the values of the keys in present, the empty value for every other key
Restrict(sh, present) ==
    [imports |-> IF "imports" \in present THEN sh.imports ELSE <<>>,
     module_to_file |-> IF "module_to_file" \in present
                        THEN sh.module_to_file ELSE <<>>,
     all_functions |-> IF "all_functions" \in present
                       THEN sh.all_functions ELSE <<>>,
     external_calls |-> IF "external_calls" \in present
                        THEN sh.external_calls ELSE {}]

\* some import of the file resolved to a path
SomeResolved(calls) ==
    \E i \in 1..Len(calls) :
        /\ calls[i].v.resolved_path # NoPath
        /\ PathStr(calls[i].v.resolved_path) # ""

\* the keys of shared_data after analyze_file: setdefault creates imports,
\* and module_to_file when an import resolved; all_functions and
\* external_calls are only read with get and 'in'
KeysAfter(present, iv) ==
    IF iv.raised THEN present
    ELSE present \cup {"imports"}
                 \cup (IF SomeResolved(iv.calls) THEN {"module_to_file"}
                       ELSE {})

\* analyze_file, line 121: shared_data["external_calls"] on a dict without
\* that key
ExternalCallsKeyError(ck, present, r) ==
    /\ r.ran
    /\ ~r.raised
    /\ ck.function_visibility
    /\ "external_calls" \notin present
    /\ r.ext # {}

\* analyze_file(file, checks, shared_data, root) where shared_data has the
\* keys present
AnalyzeFileOn(file, ck, present, sh, root, fs, stmts) ==
    LET iv == ImportVisit(file, root, fs, TRUE, stmts)
        r == AnalyzeFile(file, ck, Restrict(sh, present), root, fs, stmts)
        after == KeysAfter(present, iv)
    IN  [violations |-> IF ExternalCallsKeyError(ck, present, r)
                        THEN ErrorViolation(file) ELSE r.violations,
         present |-> after,
         shared |-> Restrict(r.shared, after),
         info |-> GetImportInfo(iv.calls),
         ran |-> r.ran, functions |-> r.functions, ext |-> r.ext]

\* shared_data after analyze_files has set it up for a.star and b.star and
\* b.star, of text b, was analysed with every check
SharedAfterB(b) ==
    AnalyzeFile(FileB, AllChecks, SetupShared(<<FileA, FileB>>), Root, Pool,
                b).shared

AfTexts == ContentsA \cup ContentsB \cup ContentsC

InitShared ==
    /\ af \in {[pc |-> "call", stmts |-> t, btext |-> b, checks |-> ck,
                present |-> p, shared |-> Restrict(SharedAfterB(b), p),
                before |-> [present |-> p,
                            shared |-> Restrict(SharedAfterB(b), p)],
                violations |-> <<>>, info |-> <<>>, ran |-> FALSE,
                functions |-> <<>>, ext |-> {}] :
                 t \in AfTexts, ck \in CheckSets, p \in SUBSET SharedKeys,
                 b \in ContentsB}
    /\ AnalysisIdle
    /\ imv = ImvIdle
    /\ ivp = IvpIdle
    /\ cc = CcIdle
    /\ wk = WkIdle
    /\ so = SoIdle

\* analyze_file(a.star, checks, shared_data, root)
AfCall ==
    /\ af.pc = "call"
    /\ \E r \in {AnalyzeFileOn(FileA, af.checks, af.present, af.shared, Root,
                               Pool, af.stmts)} :
           af' = [af EXCEPT !.pc = "done", !.violations = r.violations,
                            !.present = r.present, !.shared = r.shared,
                            !.info = r.info, !.ran = r.ran,
                            !.functions = r.functions, !.ext = r.ext]
    /\ UNCHANGED <<files, checks, src, pc, idx, shared, result, n1, n2,
                   contrib1, p1viol, p2viol, recorded, visCall, last,
                   raisedEver, imv, ivp, cc, wk, so>>

NextShared == AfCall

SpecShared == InitShared /\ [][NextShared]_vars

\* the text defines a function at its top level
DefinesFunction(stmts) == \E i \in 1..Len(stmts) : stmts[i].k = "def"

\* C22: after analyze_file returns for a file that defines a function, with
\* calls or function_visibility enabled, shared_data holds the file's
\* import bindings, its signature table and the reference edges the file
\* recorded, whatever shared_data was passed in, an empty one included.
C22_SharedStateHoldsContribution ==
    (/\ af.pc = "done"
     /\ DefinesFunction(af.stmts)
     /\ af.checks.calls \/ af.checks.function_visibility) =>
        /\ "imports" \in af.present
        /\ DHas(af.shared.imports, FileA)
        /\ DGet(af.shared.imports, FileA) = af.info
        /\ "all_functions" \in af.present
        /\ DHas(af.shared.all_functions, FileA)
        /\ DGet(af.shared.all_functions, FileA) = af.functions
        /\ "external_calls" \in af.present
        /\ af.ext \subseteq af.shared.external_calls

====
